---- MODULE Spec2Model ----
(***************************************************************************)
(* A model of roead's SARC codec: the archive writer (src/sarc/write.rs),  *)
(* the archive reader (src/sarc/parse.rs) and the record codecs            *)
(* (src/sarc/structs.rs), and of its BYML reader and materializer          *)
(* (src/byml/parser.rs), at the level of the bytes of the buffer.          *)
(*                                                                         *)
(* Representation.  A buffer, a name and a payload are sequences of bytes  *)
(* (0..255); buffer offsets are 0-based as in the code, so byte `off` of   *)
(* `buf` is buf[off + 1].  TLC's integers are 32 bit signed, so a u32      *)
(* that is an offset or a size is an integer below 2^31 (the buffers of    *)
(* the model are a few hundred bytes), while a name hash, which uses all   *)
(* 32 bits, is the pair <<high 16 bits, low 16 bits>>.                     *)
(***************************************************************************)
EXTENDS Integers, Sequences, FiniteSets, TLC

VARIABLES
    writer,     \* the SarcWriter object (its fields)
    data,       \* the buffer in the caller's hands (input of Sarc::new)
    sarc,       \* the value Sarc::new returned for `data`, or NoSarc
    ret,        \* what the last call returned (or that it panicked)
    ncorrupt,   \* how many bytes of `data` a third party has overwritten
    seed        \* the writer whose to_binary produced `data`, or NoWriter

vars == <<writer, data, sarc, ret, ncorrupt, seed>>

(***************************************************************************)
(* Bounds of the model.                                                    *)
(***************************************************************************)
MaxFiles == 2       \* files a writer holds at most
MaxCorrupt == 1     \* bytes of an input buffer overwritten at most

(***************************************************************************)
(* Program constants.                                                      *)
(***************************************************************************)
HASH_MULTIPLIER == 101          \* 0x65
MIN_ALIGNMENT == 4              \* guess_min_alignment's MIN_ALIGNMENT
MIN_SARC_LEN == 64              \* 0x40, the shortest buffer Sarc::new reads
SARC_HEADER_SIZE == 20          \* 0x14 = MAGIC.len() + size_of::<ResHeader>()
SFAT_HEADER_SIZE == 12          \* 0x0C = MAGIC.len() + size_of::<ResFatHeader>()
SFNT_HEADER_SIZE == 8           \* 0x08 = MAGIC.len() + size_of::<ResFntHeader>()
FAT_ENTRY_SIZE == 16            \* 0x10 = size_of::<ResFatEntry>()
SARC_VERSION == 256             \* 0x0100
NAME_FLAG == 16777216           \* 1 << 24, set in rel_name_opt_offset
NAME_OFFSET_MASK == 16777216    \* x & 0xFFFFFF is x % NAME_OFFSET_MASK
MAX_NUM_FILES == 16384          \* num_files >> 0xE must be 0

Endians == {"Big", "Little"}

\* ASCII
MAGIC_SARC == <<83, 65, 82, 67>>
MAGIC_SFAT == <<83, 70, 65, 84>>
MAGIC_SFNT == <<83, 70, 78, 84>>
MAGIC_YAZ0 == <<89, 97, 122, 48>>
MAGIC_FLIM == <<70, 76, 73, 77>>
DOT == 46

(***************************************************************************)
(* Primitives.                                                             *)
(***************************************************************************)
Max(a, b) == IF a >= b THEN a ELSE b
Min(a, b) == IF a <= b THEN a ELSE b

RECURSIVE Gcd(_, _)
Gcd(a, b) == IF b = 0 THEN a ELSE Gcd(b, a % b)

\* num_integer's lcm: lcm(0, 0) = 0, else a * (b / gcd(a, b)).
Lcm(a, b) == IF a = 0 /\ b = 0 THEN 0 ELSE a * (b \div Gcd(a, b))

RECURSIVE IsPowerOfTwo(_)
IsPowerOfTwo(a) ==
    IF a = 1 THEN TRUE
    ELSE IF a < 1 \/ a % 2 = 1 THEN FALSE
    ELSE IsPowerOfTwo(a \div 2)

\* a > 0 && (a & (a - 1)) == 0
is_valid_alignment(a) == a > 0 /\ IsPowerOfTwo(a)

\* write.rs: (pos + (alignment - pos % alignment) % alignment); alignment > 0,
\* a zero alignment divides by zero (see AlignmentsPanic).
align(pos, alignment) == pos + ((alignment - (pos % alignment)) % alignment)

Zeros(n) == [i \in 1..n |-> 0]

\* The bytes buf[from .. to) of a buffer, 0-based, from <= to <= Len(buf).
Slice(buf, from, to) == [i \in 1..(to - from) |-> buf[from + i]]

RECURSIVE Concat(_)
Concat(seqs) == IF seqs = <<>> THEN <<>> ELSE Head(seqs) \o Concat(Tail(seqs))

(***************************************************************************)
(* Fixed-width integers in a buffer.                                       *)
(***************************************************************************)
U16Bytes(v, e) ==
    IF e = "Little" THEN <<v % 256, v \div 256>> ELSE <<v \div 256, v % 256>>

U32Bytes(v, e) ==
    LET b0 == v % 256
        b1 == (v \div 256) % 256
        b2 == (v \div 65536) % 256
        b3 == v \div 16777216
    IN  IF e = "Little" THEN <<b0, b1, b2, b3>> ELSE <<b3, b2, b1, b0>>

\* A hash <<hi, lo>> as a u32.
HashBytes(h, e) ==
    IF e = "Little" THEN U16Bytes(h[2], e) \o U16Bytes(h[1], e)
    ELSE U16Bytes(h[1], e) \o U16Bytes(h[2], e)

ReadU16(buf, off, e) ==
    IF e = "Little" THEN buf[off + 1] + 256 * buf[off + 2]
    ELSE 256 * buf[off + 1] + buf[off + 2]

ReadU32(buf, off, e) ==
    IF e = "Little"
    THEN buf[off + 1] + 256 * buf[off + 2] + 65536 * buf[off + 3] + 16777216 * buf[off + 4]
    ELSE 16777216 * buf[off + 1] + 65536 * buf[off + 2] + 256 * buf[off + 3] + buf[off + 4]

ReadHash(buf, off, e) ==
    IF e = "Little" THEN <<ReadU16(buf, off + 2, e), ReadU16(buf, off, e)>>
    ELSE <<ReadU16(buf, off, e), ReadU16(buf, off + 2, e)>>

\* Endian's TryWrite / TryRead (lib.rs): Big is FE FF, Little is FF FE.
BomBytes(e) == IF e = "Big" THEN <<254, 255>> ELSE <<255, 254>>

ReadBom(buf, off) ==
    IF <<buf[off + 1], buf[off + 2]>> = <<254, 255>> THEN "Big"
    ELSE IF <<buf[off + 1], buf[off + 2]>> = <<255, 254>> THEN "Little"
    ELSE "Invalid"

(***************************************************************************)
(* hash_name: h = h * mul + b over the bytes of the name, wrapping at      *)
(* 2^32, from h = 0.  On the two halves of h; mul < 2^15 keeps every       *)
(* intermediate value below 2^31.                                          *)
(***************************************************************************)
HashStep(h, mul, b) ==
    LET lo == h[2] * mul + b
        hi == h[1] * mul + (lo \div 65536)
    IN  <<hi % 65536, lo % 65536>>

RECURSIVE HashFold(_, _, _, _)
HashFold(mul, name, i, h) ==
    IF i > Len(name) THEN h
    ELSE HashFold(mul, name, i + 1, HashStep(h, mul, name[i]))

hash_name(mul, name) == HashFold(mul, name, 1, <<0, 0>>)

\* u32's Ord on the two halves.
HashLess(a, b) == a[1] < b[1] \/ (a[1] = b[1] /\ a[2] < b[2])
HashLeq(a, b) == a = b \/ HashLess(a, b)

(***************************************************************************)
(* The universe of the model: names, extensions and payloads.              *)
(***************************************************************************)
NameA == <<97>>                             \* "a"
NameAF == <<97, 102>>                       \* "af"
NameB1 == <<98, 1>>                         \* "b\x01": the hash of "af" under 0x65
NameKsky == <<46, 107, 115, 107, 121>>      \* ".ksky"
NameBaglmf == <<46, 98, 97, 103, 108, 109, 102>>   \* ".baglmf": aligned to 0x80
Names == {NameA, NameAF, NameKsky, NameBaglmf}     \* add_file's names
LookupNames == {NameA, NameAF, NameB1, NameKsky}

ExtNone == <<>>                             \* the extension of "a", "af"
ExtKsky == <<107, 115, 107, 121>>
ExtBksky == <<98, 107, 115, 107, 121>>
ExtGtx == <<103, 116, 120>>
ExtSharcb == <<115, 104, 97, 114, 99, 98>>
ExtSharc == <<115, 104, 97, 114, 99>>
ExtBaglmf == <<98, 97, 103, 108, 109, 102>>
ExtBffnt == <<98, 102, 102, 110, 116>>
ExtInputs == {ExtKsky}                      \* add_alignment_requirement's ext

Payloads == {<<>>, <<1, 2, 3, 4, 5>>}

MinAlignInputs == {2, 3}                    \* set_min_alignment's argument
ExtAlignInputs == {3, 16}                   \* add_alignment_requirement's argument

(***************************************************************************)
(* SarcWriter (src/sarc/write.rs).                                         *)
(***************************************************************************)
EmptyMap == [x \in {} |-> 0]

MapInsert(m, k, v) == [x \in (DOMAIN m) \cup {k} |-> IF x = k THEN v ELSE m[x]]

\* SarcWriter::new
SarcWriter_new(endian) ==
    [endian |-> endian,
     legacy |-> FALSE,
     hash_multiplier |-> HASH_MULTIPLIER,
     alignment_map |-> EmptyMap,
     files |-> <<>>,
     bin_endian |-> endian,
     min_alignment |-> 4]

FileIndex(files, name) ==
    IF \E i \in 1..Len(files) : files[i].name = name
    THEN CHOOSE i \in 1..Len(files) : files[i].name = name
    ELSE 0

\* IndexMap::insert: a new key goes last, a known key keeps its place.
IndexMapInsert(files, name, payload) ==
    LET i == FileIndex(files, name)
        f == [name |-> name, data |-> payload]
    IN  IF i = 0 THEN Append(files, f) ELSE [files EXCEPT ![i] = f]

\* IndexMap::remove is swap_remove: the last entry takes the removed one's place.
IndexMapRemove(files, name) ==
    LET i == FileIndex(files, name)
        n == Len(files)
    IN  IF i = 0 THEN files
        ELSE IF i = n THEN SubSeq(files, 1, n - 1)
        ELSE [j \in 1..(n - 1) |-> IF j = i THEN files[n] ELSE files[j]]

\* The aglenv table (src/sarc/write/aglenv.rs, generated at build time), taken
\* as empty; its entries are inserted like the seven explicit ones below.
AGLENV_INFO == <<>>

\* The factory extensions (src/sarc/write/factory.rs); "sarc" and "bfres" are
\* two of them.
FACTORY_NAMES == {ExtSharc, <<98, 102, 114, 101, 115>>}

RECURSIVE InsertAll(_, _)
InsertAll(m, pairs) ==
    IF pairs = <<>> THEN m
    ELSE InsertAll(MapInsert(m, Head(pairs)[1], Head(pairs)[2]), Tail(pairs))

\* SarcWriter::add_default_alignments
add_default_alignments(w) ==
    [w EXCEPT !.alignment_map =
        InsertAll(w.alignment_map,
                  AGLENV_INFO \o
                  << <<ExtKsky, 8>>, <<ExtBksky, 8>>, <<ExtGtx, 8192>>,
                     <<ExtSharcb, 4096>>, <<ExtSharc, 4096>>, <<ExtBaglmf, 128>>,
                     <<ExtBffnt, IF w.endian = "Big" THEN 8192 ELSE 4096>> >>)]

\* name.rfind('.'): the last index (1-based) of the dot, 0 when there is none.
RECURSIVE RFind(_, _, _)
RFind(name, c, i) ==
    IF i = 0 THEN 0 ELSE IF name[i] = c THEN i ELSE RFind(name, c, i - 1)

Extension(name) ==
    LET idx == RFind(name, DOT, Len(name))
    IN  IF idx = 0 THEN <<>> ELSE SubSeq(name, idx + 1, Len(name))

\* SarcWriter::is_file_sarc
is_file_sarc(payload) ==
    /\ Len(payload) >= 32
    /\ \/ Slice(payload, 0, 4) = MAGIC_SARC
       \/ Slice(payload, 0, 4) = MAGIC_YAZ0 /\ Slice(payload, 17, 21) = MAGIC_SARC

\* SarcWriter::get_alignment_for_new_binary_file (1 << data[0xE] for shifts
\* below 31; payloads of the model are shorter than 0x20 bytes).
get_alignment_for_new_binary_file(payload) ==
    IF Len(payload) <= 32 THEN 1
    ELSE LET endian == ReadBom(payload, 12)
         IN  IF endian = "Invalid" THEN 1
             ELSE IF ReadU32(payload, 28, endian) # Len(payload) THEN 1
             ELSE 2 ^ payload[14 + 1]

\* SarcWriter::get_alignment_for_cafe_bflim
get_alignment_for_cafe_bflim(payload) ==
    IF Len(payload) <= 40
       \/ Slice(payload, Len(payload) - 40, Len(payload) - 36) # MAGIC_FLIM
    THEN 1
    ELSE ReadU16(payload, Len(payload) - 8, "Big")

\* SarcWriter::get_alignment_for_file
get_alignment_for_file(w, name, payload) ==
    LET ext == Extension(name)
        a0 == w.min_alignment
        a1 == IF ext \in DOMAIN w.alignment_map
              THEN Lcm(a0, w.alignment_map[ext]) ELSE a0
        a2 == IF w.legacy /\ is_file_sarc(payload) THEN Lcm(a1, 8192) ELSE a1
        a3 == IF w.legacy \/ ext \notin FACTORY_NAMES
              THEN LET b == Lcm(a2, get_alignment_for_new_binary_file(payload))
                   IN  IF w.endian = "Big"
                       THEN Lcm(b, get_alignment_for_cafe_bflim(payload))
                       ELSE b
              ELSE a2
    IN  a3

\* SarcWriter::est_size: ((0x28 + sum) as f32 * 1.5) as usize, exact below 2^23.
RECURSIVE EstSum(_)
EstSum(files) ==
    IF files = <<>> THEN 0
    ELSE 16 + align(Len(Head(files).name) + 1, 4) + Len(Head(files).data)
         + EstSum(Tail(files))

est_size(w) ==
    ((SARC_HEADER_SIZE + SFAT_HEADER_SIZE + SFNT_HEADER_SIZE + EstSum(w.files)) * 3) \div 2

(***************************************************************************)
(* SarcWriter::write.                                                      *)
(***************************************************************************)
\* Wrong on purpose: an insertion that overwrites the last entry instead of
\* shifting it (sensitivity of C29).
InsertOverLast(sorted, f) ==
    IF sorted = <<>> THEN <<f>>
    ELSE IF HashLess(hash_name(HASH_MULTIPLIER, f.name),
                     hash_name(HASH_MULTIPLIER, sorted[Len(sorted)].name))
    THEN Append(SubSeq(sorted, 1, Len(sorted) - 1), f)
    ELSE Append(sorted, f)

\* files.sort_unstable_by(hash_name(HASH_MULTIPLIER, ka).cmp(hash_name(.., kb))):
\* slices of at most 20 elements are insertion-sorted by core::slice::sort.
RECURSIVE InsertByHash(_, _)
InsertByHash(sorted, f) ==
    IF sorted = <<>> THEN <<f>>
    ELSE LET last == sorted[Len(sorted)]
         IN  IF HashLess(hash_name(HASH_MULTIPLIER, f.name),
                         hash_name(HASH_MULTIPLIER, last.name))
             THEN Append(InsertByHash(SubSeq(sorted, 1, Len(sorted) - 1), f), last)
             ELSE Append(sorted, f)

\* Wrong on purpose: the files left in insertion order (sensitivity of C4).
NoSort(files) == files

RECURSIVE SortByHash(_)
SortByHash(files) ==
    IF files = <<>> THEN <<>>
    ELSE InsertByHash(SortByHash(SubSeq(files, 1, Len(files) - 1)), files[Len(files)])

\* The writer as write leaves it: files sorted, the default alignments inserted.
WriterAfterWrite(w) ==
    add_default_alignments([w EXCEPT !.files = SortByHash(w.files)])

\* The alignments vector write collects, over the sorted files.
Alignments(w) ==
    [i \in 1..Len(w.files) |->
        get_alignment_for_file(w, w.files[i].name, w.files[i].data)]

\* align(pos, 0) computes pos % 0: a panic.
AlignmentsPanic(als) == \E i \in 1..Len(als) : als[i] = 0

\* First loop: rel_data_offset after the first i files; file i's rel_offset
\* (its data_begin) is align(rel_data_offset, alignment).
RECURSIVE RelDataEnd(_, _, _)
RelDataEnd(files, als, i) ==
    IF i = 0 THEN 0
    ELSE align(RelDataEnd(files, als, i - 1), als[i]) + Len(files[i].data)

\* Wrong on purpose: a FAT pass that does not align (sensitivity of C5).
RelDataBeginPacked(files, als, i) == RelDataEnd(files, als, i - 1)

RelDataBegin(files, als, i) == align(RelDataEnd(files, als, i - 1), als[i])

\* rel_string_offset before file i.
RECURSIVE RelStringOffset(_, _)
RelStringOffset(files, i) ==
    IF i = 1 THEN 0
    ELSE RelStringOffset(files, i - 1) + align(Len(files[i - 1].name) + 1, 4)

\* The ResFatEntry written for file i, given its rel_offset.
FatEntryAt(w, i, rel_offset) ==
    [name_hash |-> hash_name(w.hash_multiplier, w.files[i].name),
     rel_name_opt_offset |-> NAME_FLAG + (RelStringOffset(w.files, i) \div 4),
     data_begin |-> rel_offset,
     data_end |-> rel_offset + Len(w.files[i].data)]

FatEntry(w, als, i) == FatEntryAt(w, i, RelDataBegin(w.files, als, i))

\* ResFatEntry's TryWrite
FatEntryBytes(entry, e) ==
    HashBytes(entry.name_hash, e) \o U32Bytes(entry.rel_name_opt_offset, e)
    \o U32Bytes(entry.data_begin, e) \o U32Bytes(entry.data_end, e)

\* ResFatHeader's TryWrite
FatHeaderBytes(w) ==
    MAGIC_SFAT \o U16Bytes(SFAT_HEADER_SIZE, w.bin_endian)
    \o U16Bytes(Len(w.files), w.bin_endian)
    \o U32Bytes(w.hash_multiplier, w.bin_endian)

\* ResFntHeader's TryWrite
FntHeaderBytes(w) ==
    MAGIC_SFNT \o U16Bytes(SFNT_HEADER_SIZE, w.bin_endian) \o U16Bytes(0, w.bin_endian)

\* The bytes write puts at 0x14: the SFAT header, the entries, the SFNT header.
FatBytes(w, als) ==
    FatHeaderBytes(w)
    \o Concat([i \in 1..Len(w.files) |-> FatEntryBytes(FatEntry(w, als, i), w.bin_endian)])
    \o FntHeaderBytes(w)

\* Second loop: each name, a NUL, then *offset = align(*offset, 4); `offset` is
\* the absolute offset the name of file i is written at.
RECURSIVE NameTableBytes(_, _, _)
NameTableBytes(files, i, offset) ==
    IF i > Len(files) THEN <<>>
    ELSE files[i].name \o <<0>>
         \o Zeros(align(offset + Len(files[i].name) + 1, 4) - (offset + Len(files[i].name) + 1))
         \o NameTableBytes(files, i + 1, align(offset + Len(files[i].name) + 1, 4))

\* alignments.iter().fold(1, lcm)
RECURSIVE LcmFold(_, _)
LcmFold(als, i) == IF i = 0 THEN 1 ELSE Lcm(LcmFold(als, i - 1), als[i])

required_alignment(als) == LcmFold(als, Len(als))

\* Wrong on purpose: a data pass that does not align (sensitivity of C24).
RECURSIVE DataBytesPacked(_, _, _, _)
DataBytesPacked(files, als, i, offset) ==
    IF i > Len(files) THEN <<>>
    ELSE files[i].data \o DataBytesPacked(files, als, i + 1, offset + Len(files[i].data))

\* Third loop: *offset = align(*offset, alignment), then the payload; the buffer
\* is zeroed, so the bytes skipped are zeros.
RECURSIVE DataBytes(_, _, _, _)
DataBytes(files, als, i, offset) ==
    IF i > Len(files) THEN <<>>
    ELSE Zeros(align(offset, als[i]) - offset) \o files[i].data
         \o DataBytes(files, als, i + 1, align(offset, als[i]) + Len(files[i].data))

\* Wrong on purpose: a header whose file_size is the offset before the data
\* pass (sensitivity of C6).
ResHeaderBytesStale(bom, file_size, data_offset) ==
    U16Bytes(SARC_HEADER_SIZE, bom) \o BomBytes(bom) \o U32Bytes(data_offset, bom)
    \o U32Bytes(data_offset, bom) \o U16Bytes(SARC_VERSION, bom) \o U16Bytes(0, bom)

\* ResHeader's TryWrite: the byte order is that of the bom written.
ResHeaderBytes(bom, file_size, data_offset) ==
    U16Bytes(SARC_HEADER_SIZE, bom) \o BomBytes(bom) \o U32Bytes(file_size, bom)
    \o U32Bytes(data_offset, bom) \o U16Bytes(SARC_VERSION, bom) \o U16Bytes(0, bom)

\* The buffer up to file_size = data_offset_begin + Len(payload).
LayoutRecord(w, fat, names, names_end, data_offset_begin, payload) ==
    [bytes |-> MAGIC_SARC
               \o ResHeaderBytes(w.endian, data_offset_begin + Len(payload), data_offset_begin)
               \o fat \o names \o Zeros(data_offset_begin - names_end) \o payload,
     data_offset_begin |-> data_offset_begin,
     file_size |-> data_offset_begin + Len(payload)]

\* *offset = align(*offset, required_alignment); data_offset_begin = *offset
LayoutData(w, als, fat, names, names_end, data_offset_begin) ==
    LayoutRecord(w, fat, names, names_end, data_offset_begin,
                 DataBytes(w.files, als, 1, data_offset_begin))

LayoutNames(w, als, fat, names) ==
    LayoutData(w, als, fat, names, SARC_HEADER_SIZE + Len(fat) + Len(names),
               align(SARC_HEADER_SIZE + Len(fat) + Len(names), required_alignment(als)))

LayoutFat(w, als, fat) ==
    LayoutNames(w, als, fat, NameTableBytes(w.files, 1, SARC_HEADER_SIZE + Len(fat)))

\* Everything write lays out, for a writer whose files are sorted and whose
\* alignment map holds the defaults: [bytes, data_offset_begin, file_size].
Layout(w, als) == LayoutFat(w, als, FatBytes(w, als))

\* The Ok of write: the bytes laid out, then the rest of the zeroed buffer.
WriteOut(lay, buflen) ==
    IF lay.file_size > buflen THEN [tag |-> "Err"]
    ELSE [tag |-> "Ok",
          written |-> lay.file_size,
          data_offset_begin |-> lay.data_offset_begin,
          buf |-> lay.bytes \o Zeros(buflen - lay.file_size)]

WriteSorted(w, als, est, buflen) ==
    IF buflen < est THEN [tag |-> "Err"]
    ELSE IF AlignmentsPanic(als) THEN [tag |-> "Panic"]
    ELSE WriteOut(Layout(w, als), buflen)

WriteWith(w, est, buflen) == WriteSorted(w, Alignments(w), est, buflen)

\* SarcWriter::write on a zeroed buffer of buflen bytes: Err when the buffer is
\* shorter than est_size or a write_with passes its end.  The writes go up the
\* buffer, the last payload ends at file_size, and a write that starts past the
\* end fails even when it is empty: some write fails iff file_size > buflen.
write(w0, buflen) == WriteWith(WriterAfterWrite(w0), est_size(w0), buflen)

\* to_binary on write's result: the first `written` bytes of the buffer; panics
\* when write fails ("SARC should write to memory without error") or overruns.
ToBinaryOf(r, est) ==
    IF r.tag # "Ok" THEN [tag |-> "Panic"]
    ELSE IF r.written > est THEN [tag |-> "Panic"]
    ELSE [tag |-> "Ok",
          buf |-> SubSeq(r.buf, 1, r.written),
          written |-> r.written,
          data_offset_begin |-> r.data_offset_begin]

\* SarcWriter::to_binary
to_binary(w) == ToBinaryOf(write(w, est_size(w)), est_size(w))

(***************************************************************************)
(* Sarc (src/sarc/parse.rs) and the record readers (src/sarc/structs.rs).  *)
(* An error is [tag |-> "Err", kind |-> ...]; the kinds are the variants   *)
(* of crate::Error.  "InvalidData" stands for InvalidData and, for the     *)
(* messages built at run time, InvalidDataD; "BinarySerDe" is a            *)
(* byte::Error (Incomplete, BadOffset, BadInput) turned into crate::Error  *)
(* by `?`.  A panic is [tag |-> "Panic"].                                  *)
(***************************************************************************)
Err(kind) == [tag |-> "Err", kind |-> kind]
Panic == [tag |-> "Panic"]
Unit == [tag |-> "Unit"]
None == [some |-> FALSE, v |-> <<>>]
Some(x) == [some |-> TRUE, v |-> x]

NoSarc == [tag |-> "NoSarc"]
NoWriter == [tag |-> "NoWriter"]

\* Wrong on purpose: a record reader that does not look at the magic
\* (sensitivity of C8).
ReadRecordAnyMagic(buf, off, size, magic) ==
    IF off > Len(buf) THEN "BadOffset"
    ELSE IF Len(buf) - off < size THEN "Incomplete"
    ELSE "Ok"

\* BytesExt::read_with of a record of `size` bytes (after `magic`, when it has
\* one) at `off`: BadOffset past the end, Incomplete when short, BadInput on
\* another magic.  "Ok" when the record can be read.
ReadRecord(buf, off, size, magic) ==
    IF off > Len(buf) THEN "BadOffset"
    ELSE IF Len(buf) - off < size THEN "Incomplete"
    ELSE IF Slice(buf, off, off + Len(magic)) # magic THEN "BadInput"
    ELSE "Ok"

\* Sarc::new (without the yaz0 feature's decompression).
Sarc_new(buf) ==
    IF Len(buf) < MIN_SARC_LEN THEN Err("InsufficientData")
    ELSE IF Slice(buf, 0, 4) # MAGIC_SARC THEN Err("BadMagic")
    ELSE
    LET bom == ReadBom(buf, 6)      \* ResHeader::try_read: Endian::try_read(&bytes[2..4])
    IN  IF bom = "Invalid" THEN Err("BinarySerDe")
        ELSE
        LET header_size == ReadU16(buf, 4, bom)
            data_offset == ReadU32(buf, 12, bom)
            version == ReadU16(buf, 16, bom)
        IN  IF version # SARC_VERSION THEN Err("InvalidData")
            ELSE IF header_size # SARC_HEADER_SIZE THEN Err("InvalidData")
            ELSE IF ReadRecord(buf, 20, SFAT_HEADER_SIZE, MAGIC_SFAT) # "Ok"
                 THEN Err("BinarySerDe")
            ELSE
            LET fat_header_size == ReadU16(buf, 24, bom)
                num_files == ReadU16(buf, 26, bom)
                hash_multiplier == ReadU32(buf, 28, bom)
                entries_offset == 32
                fnt_header_offset == entries_offset + FAT_ENTRY_SIZE * num_files
            IN  IF fat_header_size # SFAT_HEADER_SIZE THEN Err("InvalidData")
                ELSE IF num_files \div MAX_NUM_FILES # 0 THEN Err("InvalidDataD")
                ELSE IF ReadRecord(buf, fnt_header_offset, SFNT_HEADER_SIZE, MAGIC_SFNT) # "Ok"
                     THEN Err("BinarySerDe")
                ELSE IF ReadU16(buf, fnt_header_offset + 4, bom) # SFNT_HEADER_SIZE
                     THEN Err("InvalidData")
                ELSE
                LET names_offset == fnt_header_offset + SFNT_HEADER_SIZE
                IN  IF data_offset < names_offset THEN Err("InvalidData")
                    ELSE [tag |-> "Ok",
                          data |-> buf,
                          data_offset |-> data_offset,
                          endian |-> bom,
                          entries_offset |-> entries_offset,
                          num_files |-> num_files,
                          hash_multiplier |-> hash_multiplier,
                          names_offset |-> names_offset]

\* ResFatEntry::try_read at entry_offset (16 bytes are there).
ReadFatEntry(s, entry_offset) ==
    [name_hash |-> ReadHash(s.data, entry_offset, s.endian),
     rel_name_opt_offset |-> ReadU32(s.data, entry_offset + 4, s.endian),
     data_begin |-> ReadU32(s.data, entry_offset + 8, s.endian),
     data_end |-> ReadU32(s.data, entry_offset + 12, s.endian)]

EntryOffset(s, index) == s.entries_offset + FAT_ENTRY_SIZE * index

\* find_null: the position of the first NUL of buf[from ..], -1 when none.
FindNull(buf, from) ==
    IF \E i \in from..(Len(buf) - 1) : buf[i + 1] = 0
    THEN (CHOOSE i \in from..(Len(buf) - 1) :
            buf[i + 1] = 0 /\ \A j \in from..(i - 1) : buf[j + 1] # 0) - from
    ELSE -1

\* core::str::from_utf8 on the 7-bit bytes the model's name tables hold: a byte
\* above 0x7F is taken as an invalid sequence.
IsUtf8(bytes) == \A i \in 1..Len(bytes) : bytes[i] < 128

\* Sarc::find_file's loop, on the interval [a, b].
RECURSIVE FindLoop(_, _, _, _)
FindLoop(s, needle_hash, a, b) ==
    IF a > b THEN [tag |-> "Ok", found |-> FALSE, index |-> 0]
    ELSE
    LET m == (a + b) \div 2
        offset == s.entries_offset + FAT_ENTRY_SIZE * m
    IN  IF offset + 4 > Len(s.data) THEN Err("BinarySerDe")
        ELSE
        LET hash == ReadHash(s.data, offset, s.endian)
        IN  IF HashLess(needle_hash, hash)
            THEN IF m = 0 THEN [tag |-> "Ok", found |-> FALSE, index |-> 0]
                 ELSE FindLoop(s, needle_hash, a, m - 1)
            ELSE IF HashLess(hash, needle_hash)
            THEN FindLoop(s, needle_hash, m + 1, b)
            ELSE [tag |-> "Ok", found |-> TRUE, index |-> m]

\* Wrong on purpose: a search whose lower bound stays on the probed index
\* (sensitivity of C28).
LowerBoundStuck(m) == m

\* Ordering::Greater => a = m + 1
LowerBoundAfter(m) == m + 1

\* The probes of find_file's loop from the interval [a, b], one record per
\* round of `while a <= b`: the interval, the index probed and the hash read.
\* `fuel` rounds are followed; a probe with m = -1 stands for a loop that is
\* still running after them.
RECURSIVE FindProbes(_, _, _, _, _)
FindProbes(s, needle_hash, a, b, fuel) ==
    IF a > b THEN <<>>
    ELSE IF fuel = 0 THEN <<[a |-> a, b |-> b, m |-> -1, less |-> FALSE]>>
    ELSE
    LET m == (a + b) \div 2
        offset == s.entries_offset + FAT_ENTRY_SIZE * m
    IN  IF offset + 4 > Len(s.data) THEN <<[a |-> a, b |-> b, m |-> m, less |-> FALSE]>>
        ELSE
        LET hash == ReadHash(s.data, offset, s.endian)
        IN  IF HashLess(needle_hash, hash)
            THEN <<[a |-> a, b |-> b, m |-> m, less |-> TRUE]>>
                 \o (IF m = 0 THEN <<>>           \* m.checked_sub(1) is None
                     ELSE FindProbes(s, needle_hash, a, m - 1, fuel - 1))
            ELSE IF HashLess(hash, needle_hash)
            THEN <<[a |-> a, b |-> b, m |-> m, less |-> FALSE]>>
                 \o FindProbes(s, needle_hash, LowerBoundAfter(m), b, fuel - 1)
            ELSE <<[a |-> a, b |-> b, m |-> m, less |-> FALSE]>>

\* Wrong on purpose: a lookup that takes the first entry whatever its hash
\* (sensitivity of C7).
FindFirstEntry(s, file) ==
    [tag |-> "Ok", found |-> s.num_files # 0, index |-> 0]

\* Sarc::find_file
find_file(s, file) ==
    IF s.num_files = 0 THEN [tag |-> "Ok", found |-> FALSE, index |-> 0]
    ELSE FindLoop(s, hash_name(s.hash_multiplier, file), 0, s.num_files - 1)

\* The slice data[data_offset + data_begin .. data_offset + data_end] exists.
DataRangeOk(s, entry) ==
    /\ s.data_offset + entry.data_begin <= s.data_offset + entry.data_end
    /\ s.data_offset + entry.data_end <= Len(s.data)

DataSlice(s, entry) ==
    Slice(s.data, s.data_offset + entry.data_begin, s.data_offset + entry.data_end)

NameOffset(s, entry) ==
    s.names_offset + (entry.rel_name_opt_offset % NAME_OFFSET_MASK) * 4

\* Sarc::file_at: indexing a slice out of its range panics.
file_at(s, index) ==
    IF index >= s.num_files THEN Err("InvalidDataD")
    ELSE
    LET entry_offset == EntryOffset(s, index)
    IN  IF entry_offset > Len(s.data) THEN Panic
        ELSE IF Len(s.data) - entry_offset < FAT_ENTRY_SIZE THEN Err("BinarySerDe")
        ELSE
        LET entry == ReadFatEntry(s, entry_offset)
            name_offset == NameOffset(s, entry)
            term_pos == FindNull(s.data, name_offset)
            name == Slice(s.data, name_offset, name_offset + term_pos)
        IN  IF entry.rel_name_opt_offset # 0 /\ name_offset > Len(s.data) THEN Panic
            ELSE IF entry.rel_name_opt_offset # 0 /\ term_pos < 0 THEN Err("InvalidData")
            ELSE IF entry.rel_name_opt_offset # 0 /\ ~IsUtf8(name) THEN Err("InvalidUtf8")
            ELSE IF ~DataRangeOk(s, entry) THEN Panic
            ELSE [tag |-> "Ok",
                  name |-> IF entry.rel_name_opt_offset # 0 THEN Some(name) ELSE None,
                  data |-> DataSlice(s, entry),
                  index |-> index]

\* Sarc::get: Some(file), None, or a panic of file_at.
get(s, file) ==
    LET file_index == find_file(s, file)
    IN  IF file_index.tag # "Ok" \/ ~file_index.found THEN [tag |-> "None"]
        ELSE LET f == file_at(s, file_index.index)
             IN  IF f.tag = "Panic" THEN Panic
                 ELSE IF f.tag = "Err" THEN [tag |-> "None"]
                 ELSE [tag |-> "Some", file |-> f]

\* Sarc::try_get: Ok(Some(file)), Ok(None), Err, or a panic of file_at.
try_get(s, file) ==
    LET file_index == find_file(s, file)
    IN  IF file_index.tag # "Ok" THEN file_index
        ELSE IF ~file_index.found THEN [tag |-> "OkNone"]
        ELSE LET f == file_at(s, file_index.index)
             IN  IF f.tag = "Ok" THEN [tag |-> "OkSome", file |-> f] ELSE f

\* Sarc::try_get_data
try_get_data(s, file) ==
    LET file_index == find_file(s, file)
    IN  IF file_index.tag # "Ok" THEN file_index
        ELSE IF ~file_index.found THEN [tag |-> "OkNone"]
        ELSE
        LET entry_offset == EntryOffset(s, file_index.index)
        IN  IF entry_offset > Len(s.data) THEN Panic
            ELSE IF Len(s.data) - entry_offset < FAT_ENTRY_SIZE THEN Err("BinarySerDe")
            ELSE LET entry == ReadFatEntry(s, entry_offset)
                 IN  IF ~DataRangeOk(s, entry) THEN Panic
                     ELSE [tag |-> "OkSome", bytes |-> DataSlice(s, entry)]

\* Sarc::get_data: self.try_get_data(file).ok().flatten()
get_data(s, file) ==
    LET r == try_get_data(s, file)
    IN  IF r.tag = "Panic" THEN Panic
        ELSE IF r.tag = "OkSome" THEN [tag |-> "Some", bytes |-> r.bytes]
        ELSE [tag |-> "None"]

\* Sarc::guess_min_alignment: each of the num_files rounds reads the entry at
\* entries_offset.
RECURSIVE GuessLoop(_, _, _)
GuessLoop(s, rounds, gcd) ==
    IF rounds = 0 THEN gcd
    ELSE LET entry == ReadFatEntry(s, s.entries_offset)
         IN  GuessLoop(s, rounds - 1, Gcd(gcd, s.data_offset + entry.data_begin))

guess_min_alignment(s) ==
    LET gcd == GuessLoop(s, s.num_files, MIN_ALIGNMENT)
    IN  IF ~is_valid_alignment(gcd) THEN MIN_ALIGNMENT ELSE gcd

\* FileIterator::next at self.index = index: an item (and the index after it),
\* None, or a panic (the name's slice is indexed, the payload's is `get`).
IterNext(s, index) ==
    IF index >= s.num_files THEN [tag |-> "None", index |-> index]
    ELSE
    LET entry_offset == EntryOffset(s, index)
    IN  IF entry_offset > Len(s.data) THEN Panic
        ELSE IF Len(s.data) - entry_offset < FAT_ENTRY_SIZE
        THEN [tag |-> "None", index |-> index]
        ELSE
        LET entry == ReadFatEntry(s, entry_offset)
            name_offset == NameOffset(s, entry)
            term_pos == FindNull(s.data, name_offset)
            name == Slice(s.data, name_offset, name_offset + term_pos)
        IN  IF entry.rel_name_opt_offset # 0 /\ name_offset > Len(s.data) THEN Panic
            ELSE IF entry.rel_name_opt_offset # 0 /\ (term_pos < 0 \/ ~IsUtf8(name))
            THEN [tag |-> "None", index |-> index + 1]
            ELSE IF ~DataRangeOk(s, entry) THEN [tag |-> "None", index |-> index + 1]
            ELSE [tag |-> "Item",
                  index |-> index + 1,
                  file |-> [tag |-> "Ok",
                            name |-> IF entry.rel_name_opt_offset # 0
                                     THEN Some(name) ELSE None,
                            data |-> DataSlice(s, entry),
                            index |-> index + 1]]

\* sarc.files() driven to its first None: the items, or a panic.
RECURSIVE FilesFrom(_, _)
FilesFrom(s, index) ==
    LET n == IterNext(s, index)
    IN  IF n.tag = "Panic" THEN Panic
        ELSE IF n.tag = "None" THEN [tag |-> "Ok", items |-> <<>>]
        ELSE LET rest == FilesFrom(s, n.index)
             IN  IF rest.tag = "Panic" THEN Panic
                 ELSE [tag |-> "Ok", items |-> <<n.file>> \o rest.items]

Files(s) == FilesFrom(s, 0)

\* .filter_map(|f| f.name.map(..)).collect() into the IndexMap.
RECURSIVE CollectNamed(_, _)
CollectNamed(files, items) ==
    IF items = <<>> THEN files
    ELSE CollectNamed(IF Head(items).name.some
                      THEN IndexMapInsert(files, Head(items).name.v, Head(items).data)
                      ELSE files,
                      Tail(items))

\* SarcWriter::from_sarc
from_sarc(s) ==
    IF Files(s).tag = "Panic" THEN Panic
    ELSE [endian |-> s.endian,
          legacy |-> FALSE,
          hash_multiplier |-> HASH_MULTIPLIER,
          alignment_map |-> EmptyMap,
          files |-> CollectNamed(<<>>, Files(s).items),
          bin_endian |-> s.endian,
          min_alignment |-> guess_min_alignment(s)]

\* File's PartialEq (src/sarc/mod.rs): the name and the data.
FileEq(f1, f2) == f1.name = f2.name /\ f1.data = f2.data

\* The loop of are_files_equal over sarc1.files().zip(sarc2.files()): Zip asks
\* the first iterator, then the second, and ends at the first None.
RECURSIVE ZipLoop(_, _, _, _)
ZipLoop(s1, i1, s2, i2) ==
    LET n1 == IterNext(s1, i1)
    IN  IF n1.tag = "Panic" THEN Panic
        ELSE IF n1.tag = "None" THEN [tag |-> "Ok", equal |-> TRUE]
        ELSE
        LET n2 == IterNext(s2, i2)
        IN  IF n2.tag = "Panic" THEN Panic
            ELSE IF n2.tag = "None" THEN [tag |-> "Ok", equal |-> TRUE]
            ELSE IF ~FileEq(n1.file, n2.file) THEN [tag |-> "Ok", equal |-> FALSE]
            ELSE ZipLoop(s1, n1.index, s2, n2.index)

\* Sarc::are_files_equal
are_files_equal(sarc1, sarc2) ==
    IF sarc1.num_files # sarc2.num_files THEN [tag |-> "Ok", equal |-> FALSE]
    ELSE ZipLoop(sarc1, 0, sarc2, 0)

(***************************************************************************)
(* The writer's operations.  A panic ends the run.                         *)
(***************************************************************************)
Running == ret.tag # "Panic"

New(endian) ==
    /\ Running
    /\ writer' = SarcWriter_new(endian)
    /\ ret' = Unit
    /\ UNCHANGED <<seed, data, sarc, ncorrupt>>

\* add_file: files.insert(name, data)
AddFile(name, payload) ==
    /\ Running /\ writer # NoWriter
    /\ FileIndex(writer.files, name) # 0 \/ Len(writer.files) < MaxFiles
    /\ writer' = [writer EXCEPT !.files = IndexMapInsert(@, name, payload)]
    /\ ret' = Unit
    /\ UNCHANGED <<seed, data, sarc, ncorrupt>>

\* remove_file: files.remove(name)
RemoveFile(name) ==
    /\ Running /\ writer # NoWriter
    /\ writer' = [writer EXCEPT !.files = IndexMapRemove(@, name)]
    /\ ret' = Unit
    /\ UNCHANGED <<seed, data, sarc, ncorrupt>>

SetMinAlignment(alignment) ==
    /\ Running /\ writer # NoWriter
    /\ IF ~is_valid_alignment(alignment)
       THEN /\ ret' = [tag |-> "Panic", op |-> "set_min_alignment"]
            /\ UNCHANGED writer
       ELSE /\ writer' = [writer EXCEPT !.min_alignment = alignment]
            /\ ret' = Unit
    /\ UNCHANGED <<seed, data, sarc, ncorrupt>>

AddAlignmentRequirement(ext, alignment) ==
    /\ Running /\ writer # NoWriter
    /\ IF ~is_valid_alignment(alignment)
       THEN /\ ret' = [tag |-> "Panic", op |-> "add_alignment_requirement"]
            /\ UNCHANGED writer
       ELSE /\ writer' = [writer EXCEPT !.alignment_map = MapInsert(@, ext, alignment)]
            /\ ret' = Unit
    /\ UNCHANGED <<seed, data, sarc, ncorrupt>>

SetLegacyMode(value) ==
    /\ Running /\ writer # NoWriter
    /\ writer' = [writer EXCEPT !.legacy = value]
    /\ ret' = Unit
    /\ UNCHANGED <<seed, data, sarc, ncorrupt>>

\* Wrong on purpose: a setter that leaves bin_endian alone (sensitivity of C30).
SetEndianFieldOnly(w, endian) == [w EXCEPT !.endian = endian]

\* set_endian: self.endian = endian; self.bin_endian = endian.into()
set_endian(w, endian) == [w EXCEPT !.endian = endian, !.bin_endian = endian]

SetEndian(endian) ==
    /\ Running /\ writer # NoWriter
    /\ writer' = set_endian(writer, endian)
    /\ ret' = Unit
    /\ UNCHANGED <<seed, data, sarc, ncorrupt>>

ToBinaryRet(r) ==
    IF r.tag = "Ok"
    THEN [tag |-> "to_binary", buf |-> r.buf, written |-> r.written,
          data_offset_begin |-> r.data_offset_begin]
    ELSE [tag |-> "Panic", op |-> "to_binary"]

\* to_binary: write sorts the files and inserts the default alignments before
\* anything can fail.
ToBinary ==
    /\ Running /\ writer # NoWriter
    /\ ret' = ToBinaryRet(to_binary(writer))
    /\ writer' = WriterAfterWrite(writer)
    /\ UNCHANGED <<seed, data, sarc, ncorrupt>>

Init ==
    /\ writer = NoWriter
    /\ seed = NoWriter
    /\ data = <<>>
    /\ sarc = NoSarc
    /\ ret = Unit
    /\ ncorrupt = 0

Next ==
    \/ \E e \in Endians : New(e)
    \/ \E n \in Names, p \in Payloads : AddFile(n, p)
    \/ \E n \in Names : RemoveFile(n)
    \/ \E a \in MinAlignInputs : SetMinAlignment(a)
    \/ \E x \in ExtInputs, a \in ExtAlignInputs : AddAlignmentRequirement(x, a)
    \/ \E b \in BOOLEAN : SetLegacyMode(b)
    \/ \E e \in Endians : SetEndian(e)
    \/ ToBinary

Spec == Init /\ [][Next]_vars

(***************************************************************************)
(* The reader's operations, on a buffer that a writer produced and that a  *)
(* third party may have overwritten in places before Sarc::new sees it.    *)
(***************************************************************************)
\* The writers whose archives are read: the file lists a writer is given.
SeedFiles ==
    { <<>>,
      <<[name |-> NameA, data |-> <<>>]>>,
      <<[name |-> NameA, data |-> <<1, 2, 3, 4, 5>>]>>,
      <<[name |-> NameB1, data |-> <<1, 2, 3, 4, 5>>], [name |-> NameAF, data |-> <<>>]>>,
      <<[name |-> NameA, data |-> <<1, 2, 3, 4, 5>>], [name |-> NameAF, data |-> <<>>]>>,
      <<[name |-> NameKsky, data |-> <<1, 2, 3, 4, 5>>],
        [name |-> NameA, data |-> <<1, 2, 3, 4, 5>>]>> }

SeedMinAlignments == {2, 4, 16}

\* SarcWriter::new(endian), set_min_alignment(m), add_file for each file.
SeedWriter(e, m, files) ==
    [SarcWriter_new(e) EXCEPT !.min_alignment = m, !.files = files]

SeedWriters ==
    { SeedWriter(e, m, fs) : e \in Endians, m \in SeedMinAlignments, fs \in SeedFiles }

\* The writer of the buffer kept the default alignment policy.
DefaultPolicy(w) ==
    w # NoWriter /\ w.min_alignment = 4 /\ w.alignment_map = EmptyMap /\ ~w.legacy

\* The offset of the least significant byte of a field of `size` bytes.
Lsb(off, size, e) == IF e = "Little" THEN off ELSE off + size - 1

\* The most significant byte of a field: the one that holds the name flag of
\* rel_name_opt_offset.
Msb(off, size, e) == IF e = "Little" THEN off + size - 1 ELSE off

\* The bytes a third party overwrites: the first byte of each magic, the BOM,
\* the bytes of the u16 fields, the least significant byte of the u32
\* offsets and of the hashes, and the flag byte of each rel_name_opt_offset
\* (offsets stay far below 2^31, the multiplier is left alone).
CorruptOffsetsOf(buf, e, num_files) ==
    { off \in
        {0, 4, 5, 6, 16, 17, 20, 24, 25, 26, 27, Lsb(12, 4, e)}
        \cup { 32 + FAT_ENTRY_SIZE * num_files + d : d \in {0, 4, 5} }
        \cup { Msb(32 + FAT_ENTRY_SIZE * i + 4, 4, e) :
                 i \in 0..(Min(num_files, Len(buf) \div FAT_ENTRY_SIZE) - 1) }
        \cup { Lsb(32 + FAT_ENTRY_SIZE * i + f, 4, e) :
                 i \in 0..(Min(num_files, Len(buf) \div FAT_ENTRY_SIZE) - 1),
                 f \in {0, 4, 8, 12} } :
      off < Len(buf) }

CorruptOffsets(buf) ==
    IF Len(buf) < SARC_HEADER_SIZE + SFAT_HEADER_SIZE \/ ReadBom(buf, 6) = "Invalid" THEN {}
    ELSE CorruptOffsetsOf(buf, ReadBom(buf, 6), ReadU16(buf, 26, ReadBom(buf, 6)))

CorruptValues == {0, 1, 64}

\* A byte of the buffer is overwritten while no Sarc borrows it.
Corrupt(off, val) ==
    /\ Running /\ sarc = NoSarc /\ ncorrupt < MaxCorrupt
    /\ data[off + 1] # val
    /\ data' = [data EXCEPT ![off + 1] = val]
    /\ ncorrupt' = ncorrupt + 1
    /\ UNCHANGED <<writer, seed, sarc, ret>>

SarcNew ==
    /\ Running /\ sarc = NoSarc
    /\ sarc' = Sarc_new(data)
    /\ ret' = [tag |-> "Sarc_new"]
    /\ UNCHANGED <<writer, seed, data, ncorrupt>>

\* What a call on the Sarc leaves in `ret`.
CallRet(op, arg, r) ==
    IF r.tag = "Panic" THEN [tag |-> "Panic", op |-> op, arg |-> arg]
    ELSE [tag |-> op, arg |-> arg, result |-> r]

\* Sarc's methods take &self: they change nothing, and the model asks them
\* before from_sarc builds a writer.
Readable == Running /\ sarc # NoSarc /\ sarc.tag = "Ok" /\ writer = NoWriter

Get(name) ==
    /\ Readable
    /\ ret' = CallRet("get", name, get(sarc, name))
    /\ UNCHANGED <<writer, seed, data, sarc, ncorrupt>>

TryGet(name) ==
    /\ Readable
    /\ ret' = CallRet("try_get", name, try_get(sarc, name))
    /\ UNCHANGED <<writer, seed, data, sarc, ncorrupt>>

GetData(name) ==
    /\ Readable
    /\ ret' = CallRet("get_data", name, get_data(sarc, name))
    /\ UNCHANGED <<writer, seed, data, sarc, ncorrupt>>

TryGetData(name) ==
    /\ Readable
    /\ ret' = CallRet("try_get_data", name, try_get_data(sarc, name))
    /\ UNCHANGED <<writer, seed, data, sarc, ncorrupt>>

FileAt(index) ==
    /\ Readable
    /\ ret' = CallRet("file_at", index, file_at(sarc, index))
    /\ UNCHANGED <<writer, seed, data, sarc, ncorrupt>>

GuessMinAlignment ==
    /\ Readable
    /\ ret' = [tag |-> "guess_min_alignment", result |-> guess_min_alignment(sarc)]
    /\ UNCHANGED <<writer, seed, data, sarc, ncorrupt>>

FromSarcRet(w) ==
    IF w = Panic THEN [tag |-> "Panic", op |-> "from_sarc"] ELSE [tag |-> "from_sarc"]

FromSarc ==
    /\ Readable
    /\ writer' = from_sarc(sarc)
    /\ ret' = FromSarcRet(writer')
    /\ UNCHANGED <<seed, data, sarc, ncorrupt>>

\* Sarc::are_files_equal(&sarc, &other), `other` read from the buffer another
\* writer of the same endian and minimum alignment produced.
AreFilesEqualWith(other) ==
    /\ other.tag = "Ok"
    /\ ret' = CallRet("are_files_equal", other, are_files_equal(sarc, other))

\* What Sarc::new returns for the buffer of each writer.
SeedSarcs == [w \in SeedWriters |-> Sarc_new(to_binary(w).buf)]

AreFilesEqual(w) ==
    /\ Readable
    /\ AreFilesEqualWith(SeedSarcs[w])
    /\ UNCHANGED <<writer, seed, data, sarc, ncorrupt>>

\* The buffer is what to_binary returned for one of the writers.
InitRead ==
    /\ writer = NoWriter
    /\ seed \in SeedWriters
    /\ data = to_binary(seed).buf
    /\ sarc = NoSarc
    /\ ret = Unit
    /\ ncorrupt = 0

NextRead ==
    \/ \E off \in CorruptOffsets(data), val \in CorruptValues : Corrupt(off, val)
    \/ SarcNew
    \/ \E n \in LookupNames : Get(n)
    \/ \E n \in LookupNames : TryGet(n)
    \/ \E n \in LookupNames : GetData(n)
    \/ \E n \in LookupNames : TryGetData(n)
    \/ \E i \in 0..MaxFiles : FileAt(i)
    \/ GuessMinAlignment
    \/ \E fs \in SeedFiles : AreFilesEqual(SeedWriter(seed.endian, seed.min_alignment, fs))
    \/ FromSarc
    \/ \E e \in Endians : SetEndian(e)
    \/ ToBinary

SpecRead == InitRead /\ [][NextRead]_vars

(***************************************************************************)
(* Properties of the writer (under Spec).                                  *)
(***************************************************************************)
\* The fields of the buffer to_binary returned, read back from its bytes.
WrittenEndian == ReadBom(ret.buf, 6)
WrittenFileSize == ReadU32(ret.buf, 8, WrittenEndian)
WrittenDataOffset == ReadU32(ret.buf, 12, WrittenEndian)
WrittenNumFiles == ReadU16(ret.buf, 26, WrittenEndian)
WrittenMultiplier == ReadU32(ret.buf, 28, WrittenEndian)
WrittenEntry(i) ==
    ReadFatEntry([data |-> ret.buf, endian |-> WrittenEndian], 32 + FAT_ENTRY_SIZE * i)
WrittenNameOffset(i) ==
    40 + FAT_ENTRY_SIZE * WrittenNumFiles
    + (WrittenEntry(i).rel_name_opt_offset % NAME_OFFSET_MASK) * 4
WrittenName(i) ==
    Slice(ret.buf, WrittenNameOffset(i),
          WrittenNameOffset(i) + FindNull(ret.buf, WrittenNameOffset(i)))

\* C3 (as claimed): every buffer to_binary returns is accepted by Sarc::new.
C3_ToBinaryAccepted ==
    ret.tag = "to_binary" => Sarc_new(ret.buf).tag = "Ok"

\* C4: in every archive to_binary returns, the FAT entries are in ascending
\* order of name_hash, and each name_hash is the hash of the entry's full name
\* under the multiplier written in the SFAT header.
C4_FatAscending ==
    ret.tag = "to_binary" =>
        /\ \A i \in 0..(WrittenNumFiles - 2) :
              HashLeq(WrittenEntry(i).name_hash, WrittenEntry(i + 1).name_hash)
        /\ \A i \in 0..(WrittenNumFiles - 1) :
              WrittenEntry(i).name_hash = hash_name(WrittenMultiplier, WrittenName(i))

C4_Witness ==
    /\ ret.tag = "to_binary"
    /\ WrittenNumFiles = 2
    /\ HashLess(WrittenEntry(0).name_hash, WrittenEntry(1).name_hash)

\* C5: for every entry of an archive to_binary returns, data_offset_begin +
\* data_begin is a multiple of the alignment get_alignment_for_file computes
\* for that entry's name and data.
C5_DataAligned ==
    ret.tag = "to_binary" =>
        \A i \in 1..Len(writer.files) :
            (WrittenDataOffset + WrittenEntry(i - 1).data_begin)
              % get_alignment_for_file(writer, writer.files[i].name, writer.files[i].data) = 0

C5_Witness ==
    /\ ret.tag = "to_binary"
    /\ Len(writer.files) = 2
    /\ WrittenEntry(1).data_begin > Len(writer.files[1].data)
    /\ get_alignment_for_file(writer, writer.files[2].name, writer.files[2].data) > 4

\* C6: the file_size of the header equals the value write returns, the length
\* of the buffer to_binary returns, and the end offset of the last file's data.
C6_FileSize ==
    ret.tag = "to_binary" =>
        /\ WrittenFileSize = ret.written
        /\ WrittenFileSize = Len(ret.buf)
        /\ WrittenNumFiles > 0 =>
              WrittenFileSize = WrittenDataOffset + WrittenEntry(WrittenNumFiles - 1).data_end

C6_Witness ==
    /\ ret.tag = "to_binary"
    /\ WrittenNumFiles = 2
    /\ WrittenEntry(1).data_end > WrittenEntry(1).data_begin
    /\ WrittenFileSize > WrittenDataOffset + 5

(***************************************************************************)
(* Properties of the reader and of the round trip (under SpecRead).        *)
(***************************************************************************)
Accepted == sarc # NoSarc /\ sarc.tag = "Ok"

StoredEntry(i) == ReadFatEntry(sarc, EntryOffset(sarc, i))
StoredHash(i) == StoredEntry(i).name_hash
Entries == 0..(sarc.num_files - 1)

\* The entries of the accepted archive are all named, their names pairwise
\* distinct, and their hashes those of the names under the multiplier 0x65.
NamedDistinctHashed ==
    /\ sarc.hash_multiplier = HASH_MULTIPLIER
    /\ \A i \in Entries :
          /\ file_at(sarc, i).tag = "Ok"
          /\ file_at(sarc, i).name.some
          /\ StoredHash(i) = hash_name(HASH_MULTIPLIER, file_at(sarc, i).name.v)
    /\ \A i, j \in Entries :
          i # j => file_at(sarc, i).name.v # file_at(sarc, j).name.v

\* The (name, data) pairs an accepted archive lists, in order.
Listing(s) == [i \in 1..s.num_files |->
                  <<file_at(s, i - 1).name, file_at(s, i - 1).data>>]

RereadEqual(s2) ==
    /\ s2.tag = "Ok"
    /\ are_files_equal(sarc, s2) = [tag |-> "Ok", equal |-> TRUE]
    /\ Listing(s2) = Listing(sarc)

\* C1 (as claimed): for an accepted archive whose entries are all named, with
\* distinct names and hashes under 0x65, Sarc::new accepts what to_binary
\* returns for from_sarc of it, and the two archives list the same files.
C1_ContentRoundTrip ==
    (Accepted /\ NamedDistinctHashed /\ writer # NoWriter /\ ret.tag = "to_binary")
        => RereadEqual(Sarc_new(ret.buf))

\* C2 (as claimed): an input written under the default alignment policy with
\* the multiplier 0x65 can be read, and to_binary of from_sarc of it returns
\* the input's bytes.
C2_ByteIdentical ==
    (DefaultPolicy(seed) /\ ncorrupt = 0) =>
        /\ sarc # NoSarc => sarc.tag = "Ok"
        /\ ret.tag = "to_binary" => ret.buf = data

\* What holds of C2: the inputs Sarc::new accepts come back byte for byte.
C2_AcceptedByteIdentical ==
    (DefaultPolicy(seed) /\ ncorrupt = 0 /\ ret.tag = "to_binary") => ret.buf = data

FatSorted == \A i \in Entries : i + 1 \in Entries => HashLeq(StoredHash(i), StoredHash(i + 1))
FatStrictlySorted ==
    \A i \in Entries : i + 1 \in Entries => HashLess(StoredHash(i), StoredHash(i + 1))

NeedleHash == hash_name(sarc.hash_multiplier, ret.arg)
HashPresent == \E i \in Entries : StoredHash(i) = NeedleHash
\* A linear scan of the FAT: the first entry that stores the hash.
LinearScan == CHOOSE i \in Entries :
                  StoredHash(i) = NeedleHash /\ \A j \in Entries : j < i => StoredHash(j) # NeedleHash

IsLookup == ret.tag \in {"get", "try_get"}
Absent == ret.result.tag \in {"None", "OkNone"}
ReturnsEntry(i) ==
    /\ ret.result.tag \in {"Some", "OkSome"}
    /\ ret.result.file = file_at(sarc, i)

\* C7 (as claimed): on an accepted archive with ascending hashes, get and
\* try_get return entry i exactly when entry i stores the name's hash, are
\* absent exactly when no entry stores it, and agree with a linear scan.
C7_LookupAsClaimed ==
    (Accepted /\ FatSorted /\ IsLookup) =>
        /\ \A i \in Entries : ReturnsEntry(i) <=> StoredHash(i) = NeedleHash
        /\ Absent <=> ~HashPresent
        /\ HashPresent => ReturnsEntry(LinearScan)

\* C7 (amended): on an accepted archive with strictly ascending hashes, when
\* entry i stores the name's hash the lookup yields what file_at(i) yields
\* (try_get its Ok or its error, get Some(file) or None on its error), try_get
\* is Ok(None) exactly when no entry stores the hash, get is None when none
\* does, and the entry is the one a linear scan finds.
C7_Lookup ==
    (Accepted /\ FatStrictlySorted) =>
        /\ ret.tag = "try_get" =>
              /\ ret.result.tag = "OkNone" <=> ~HashPresent
              /\ HashPresent =>
                    IF file_at(sarc, LinearScan).tag = "Ok"
                    THEN ReturnsEntry(LinearScan)
                    ELSE ret.result = file_at(sarc, LinearScan)
        /\ ret.tag = "get" =>
              /\ ~HashPresent => ret.result.tag = "None"
              /\ HashPresent =>
                    IF file_at(sarc, LinearScan).tag = "Ok"
                    THEN ReturnsEntry(LinearScan)
                    ELSE ret.result.tag = "None"
        /\ (ret.tag = "Panic" /\ ret.op \in {"get", "try_get"}) =>
              /\ HashPresent
              /\ file_at(sarc, LinearScan) = Panic
        /\ (IsLookup /\ sarc.num_files = 0) => Absent

C7_Witness ==
    /\ Accepted /\ FatStrictlySorted
    /\ ret.tag = "try_get"
    /\ sarc.num_files = 2
    /\ ret.result.tag = "OkSome"
    /\ ret.result.file.index = 1

\* What Sarc::new checks, read off the bytes of the buffer.
TooShort == Len(data) < MIN_SARC_LEN
BadSarcMagic == Slice(data, 0, 4) # MAGIC_SARC
BadBom == ReadBom(data, 6) = "Invalid"
InputEndian == ReadBom(data, 6)
InputNumFiles == ReadU16(data, 26, InputEndian)
InputFntOffset == 32 + FAT_ENTRY_SIZE * InputNumFiles
BadVersion == ReadU16(data, 16, InputEndian) # 256
BadHeaderSize == ReadU16(data, 4, InputEndian) # 20
BadSfatMagic == Slice(data, 20, 24) # MAGIC_SFAT
BadSfatSize == ReadU16(data, 24, InputEndian) # 12
TooManyFiles == InputNumFiles >= 16384
SfntTruncated == InputFntOffset + 8 > Len(data)
BadSfntMagic == Slice(data, InputFntOffset, InputFntOffset + 4) # MAGIC_SFNT
BadSfntSize == ReadU16(data, InputFntOffset + 4, InputEndian) # 8
BadDataOffset == ReadU32(data, 12, InputEndian) < InputFntOffset + 8

\* The buffer passes every check (a later field is read only when the earlier
\* ones let it be).
WellFormed ==
    /\ ~TooShort /\ ~BadSarcMagic /\ ~BadBom
    /\ ~BadVersion /\ ~BadHeaderSize /\ ~BadSfatMagic /\ ~BadSfatSize /\ ~TooManyFiles
    /\ ~SfntTruncated /\ ~BadSfntMagic /\ ~BadSfntSize /\ ~BadDataOffset

\* The SARC header passes its checks.
HeaderOk == ~TooShort /\ ~BadSarcMagic /\ ~BadBom /\ ~BadVersion /\ ~BadHeaderSize

OkPostcondition ==
    /\ sarc.num_files < 16384
    /\ sarc.names_offset = 40 + 16 * sarc.num_files
    /\ sarc.names_offset <= sarc.data_offset

InvalidDataKinds == {"InvalidData", "InvalidDataD"}

HitEntry(i) ==
    \/ /\ (ret.tag \in {"get", "try_get", "get_data", "try_get_data"}
             \/ (ret.tag = "Panic" /\ ret.op \in {"get", "try_get", "get_data", "try_get_data"}))
       /\ StoredHash(i) = NeedleHash
    \/ /\ (ret.tag = "file_at" \/ (ret.tag = "Panic" /\ ret.op = "file_at"))
       /\ ret.arg = i

EntryNameOffset(i) == NameOffset(sarc, StoredEntry(i))
\* Entry i's name offset or data range lies outside the buffer, or its name
\* has no NUL after it.
EntryOutOfRange(i) ==
    \/ ~DataRangeOk(sarc, StoredEntry(i))
    \/ /\ StoredEntry(i).rel_name_opt_offset # 0
       /\ \/ EntryNameOffset(i) > Len(sarc.data)
          \/ FindNull(sarc.data, EntryNameOffset(i)) < 0

\* C9 (as claimed): on an accepted archive, a lookup that hits an entry whose
\* name offset or data range is outside the buffer, or whose name has no NUL,
\* returns Err(InvalidData) (try_get, try_get_data, file_at) or None (get,
\* get_data), and does not panic.
C9_FailsAsValue ==
    (Accepted /\ FatStrictlySorted /\ \E i \in Entries : HitEntry(i) /\ EntryOutOfRange(i)) =>
        /\ ret.tag # "Panic"
        /\ ret.tag \in {"try_get", "try_get_data", "file_at"} => ret.result = Err("InvalidData")
        /\ ret.tag \in {"get", "get_data"} => ret.result.tag = "None"

\* The GCD of data_offset + data_begin over the entries 0 .. i - 1.
RECURSIVE GcdOfEntries(_)
GcdOfEntries(i) ==
    IF i = 0 THEN 0
    ELSE Gcd(GcdOfEntries(i - 1), sarc.data_offset + StoredEntry(i - 1).data_begin)

\* C10 (as claimed): guess_min_alignment returns the GCD of data_offset +
\* data_begin over all FAT entries, and 4 when that is not a power of two.
C10_GuessIsGcd ==
    ret.tag = "guess_min_alignment" =>
        ret.result = IF is_valid_alignment(GcdOfEntries(sarc.num_files))
                     THEN GcdOfEntries(sarc.num_files)
                     ELSE MIN_ALIGNMENT

\* The same with the GCD started at MIN_ALIGNMENT, as the code starts it.
C10_GuessIsGcdFromFour ==
    ret.tag = "guess_min_alignment" =>
        ret.result = IF is_valid_alignment(Gcd(MIN_ALIGNMENT, GcdOfEntries(sarc.num_files)))
                     THEN Gcd(MIN_ALIGNMENT, GcdOfEntries(sarc.num_files))
                     ELSE MIN_ALIGNMENT

\* The two archives hold the same ordered sequence of (optional name, bytes)
\* entries: as many, and at each position two entries that decode to the same
\* name and the same bytes.
SameEntries(a, b) ==
    /\ a.num_files = b.num_files
    /\ \A i \in 0..(a.num_files - 1) :
          /\ file_at(a, i).tag = "Ok"
          /\ file_at(b, i).tag = "Ok"
          /\ file_at(a, i).name = file_at(b, i).name
          /\ file_at(a, i).data = file_at(b, i).data

\* Every entry of the archive decodes.
AllDecode(s) == \A i \in 0..(s.num_files - 1) : file_at(s, i).tag = "Ok"

\* C11 (as claimed): are_files_equal(a, b) is true if and only if the two
\* accepted archives hold the same ordered sequence of (optional name, bytes)
\* entries; it is false when entries at one position differ, also after an
\* entry that fails to decode.
C11_FilesEqualIff ==
    (Accepted /\ ret.tag = "are_files_equal") =>
        (ret.result.equal <=> SameEntries(sarc, ret.arg))

\* What holds of C11: the equivalence between archives whose entries all decode.
C11_DecodableFilesEqualIff ==
    (Accepted /\ ret.tag = "are_files_equal" /\ AllDecode(sarc) /\ AllDecode(ret.arg)) =>
        (ret.result.equal <=> SameEntries(sarc, ret.arg))

\* C18 (as claimed): the alignment a caller set for an extension with
\* add_alignment_requirement is the requirement the next to_binary applies to
\* the files of that extension, the extensions of the built-in table included:
\* the data of each such file starts at a multiple of it.
C18_OverrideApplied ==
    [][(writer # NoWriter /\ ret'.tag = "to_binary") =>
          \A i \in 1..Len(writer'.files) :
              Extension(writer'.files[i].name) \in DOMAIN writer.alignment_map =>
                  (WrittenDataOffset' + WrittenEntry(i - 1)'.data_begin)
                    % writer.alignment_map[Extension(writer'.files[i].name)] = 0]_vars

(***************************************************************************)
(* BYML: the zero-copy reader and the materializer (src/byml/parser.rs).   *)
(*                                                                         *)
(* Representation.  A u32 read from a BYML buffer is the pair              *)
(* <<high 16 bits, low 16 bits>> (ReadHash), since a node's value uses all *)
(* 32 bits; where the code takes it `as usize` for an offset or a size it  *)
(* becomes an integer (AsUsize).  A string is its sequence of bytes.  In   *)
(* the specification SpecByml the variable `data` is the buffer given to   *)
(* BymlIter::new and Byml::from_binary and `sarc` is the BymlIter built on *)
(* it (or NoSarc).                                                         *)
(***************************************************************************)
BYML_HEADER_SIZE == 16          \* size_of::<Header>()

\* NodeType (byml/mod.rs): the variant of each tag byte.
NodeTypeOfTag ==
    (32 :> "HashMap") @@ (33 :> "ValueHashMap") @@ (160 :> "String")
    @@ (161 :> "Binary") @@ (162 :> "File") @@ (192 :> "Array") @@ (193 :> "Map")
    @@ (194 :> "StringTable") @@ (208 :> "Bool") @@ (209 :> "I32")
    @@ (210 :> "Float") @@ (211 :> "U32") @@ (212 :> "I64") @@ (213 :> "U64")
    @@ (214 :> "Double") @@ (255 :> "Null")

is_container_type(node_type) ==
    node_type \in {"Array", "Map", "ValueHashMap", "HashMap"}

is_valid_version(version) == version >= 1 /\ version < 8

\* NodeType::try_read on data[off..], off <= Len(buf): the variant, or the
\* byte crate's error.
NodeType_try_read(buf, off) ==
    IF off >= Len(buf) THEN "Incomplete"
    ELSE IF buf[off + 1] \in DOMAIN NodeTypeOfTag THEN NodeTypeOfTag[buf[off + 1]]
    ELSE "BadInput"

IsNodeType(t) == t \notin {"Incomplete", "BadInput"}

\* util::u24's TryRead: three bytes in the order of the endianness.
ReadU24(buf, off, e) ==
    IF e = "Little" THEN buf[off + 1] + 256 * buf[off + 2] + 65536 * buf[off + 3]
    ELSE 65536 * buf[off + 1] + 256 * buf[off + 2] + buf[off + 3]

\* `value as usize` of a u32 pair.  The code compares such a value with the
\* length of a buffer and with the u24 count of a string table only, and both
\* are below 2^24 in the model: a value of 2^24 or more is as far beyond them
\* as 2^24 is.
AsUsize(v) == IF v[1] >= 256 THEN 16777216 ELSE v[1] * 65536 + v[2]

\* Header::try_read
Header_try_read(buf) ==
    IF Len(buf) < BYML_HEADER_SIZE THEN Err("BinarySerDe")
    ELSE IF <<buf[1], buf[2]>> \notin {<<66, 89>>, <<89, 66>>} THEN Err("BinarySerDe")
    ELSE [tag |-> "Ok",
          endian |-> IF buf[1] = 66 THEN "Big" ELSE "Little",
          version |-> ReadU16(buf, 2, IF buf[1] = 66 THEN "Big" ELSE "Little"),
          hash_key_table_offset |->
              AsUsize(ReadHash(buf, 4, IF buf[1] = 66 THEN "Big" ELSE "Little")),
          string_table_offset |->
              AsUsize(ReadHash(buf, 8, IF buf[1] = 66 THEN "Big" ELSE "Little")),
          root_node_offset |->
              AsUsize(ReadHash(buf, 12, IF buf[1] = 66 THEN "Big" ELSE "Little"))]

\* BymlIter::new; root_node_idx is 0 for None.
BymlIterOf(buf, h) ==
    IF h.tag = "Err" THEN h
    ELSE [tag |-> "Ok", data |-> buf, endian |-> h.endian,
          root_node_idx |-> h.root_node_offset]

BymlIter_new(buf) == BymlIterOf(buf, Header_try_read(buf))

\* str's Ord on two byte strings: lexicographic by byte, a proper prefix first.
RECURSIVE StrCmp(_, _)
StrCmp(a, b) ==
    IF a = <<>> /\ b = <<>> THEN "Equal"
    ELSE IF a = <<>> THEN "Less"
    ELSE IF b = <<>> THEN "Greater"
    ELSE IF Head(a) < Head(b) THEN "Less"
    ELSE IF Head(a) > Head(b) THEN "Greater"
    ELSE StrCmp(Tail(a), Tail(b))

\* read_with(Str::Delimiter(0)) on data[from..], from <= Len(buf): the bytes
\* up to the first NUL when there is one and they are UTF-8.
ReadStr(buf, from) ==
    IF FindNull(buf, from) < 0 THEN None
    ELSE IF ~IsUtf8(Slice(buf, from, from + FindNull(buf, from))) THEN None
    ELSE Some(Slice(buf, from, from + FindNull(buf, from)))

\* BymlStringTableReader::new on data[off..] (BymlIter::key_table and
\* string_table slice the buffer first): the table's offset and its count.
StringTable_new(buf, off, e) ==
    IF off > Len(buf) THEN Panic
    ELSE IF ~IsNodeType(NodeType_try_read(buf, off)) THEN Err("BinarySerDe")
    ELSE IF NodeType_try_read(buf, off) # "StringTable" THEN Err("InvalidData")
    ELSE IF Len(buf) - (off + 1) < 3 THEN Err("BinarySerDe")
    ELSE [tag |-> "Ok", offset |-> off, len |-> ReadU24(buf, off + 1, e)]

\* BymlStringTableReader::get: offset_iter().nth(index) is Some when index is
\* below the count and the index-th u32 of the offset table is in the buffer;
\* slicing the table at the offset read panics when it is past the end.
StringTable_get(buf, e, st, index) ==
    IF index >= st.len \/ index * 4 + 4 > Len(buf) - st.offset - 4 THEN None
    ELSE IF AsUsize(ReadHash(buf, st.offset + 4 + index * 4, e)) > Len(buf) - st.offset
    THEN Panic
    ELSE ReadStr(buf, st.offset + AsUsize(ReadHash(buf, st.offset + 4 + index * 4, e)))

\* One round of BymlStringTableReader::pos's loop at `index`, given the
\* string read there.
RECURSIVE PosLoop(_, _, _, _, _, _)
PosStep(buf, e, st, key, start, end, index, string) ==
    IF ~string.some THEN None
    ELSE IF StrCmp(string.v, key) = "Equal" THEN Some(index)
    ELSE IF StrCmp(string.v, key) = "Less" THEN PosLoop(buf, e, st, key, index + 1, end)
    ELSE PosLoop(buf, e, st, key, start, index)

PosAt(buf, e, st, key, start, end, index) ==
    IF 4 + index * 4 > Len(buf) - st.offset THEN Panic
    ELSE IF Len(buf) - st.offset - (4 + index * 4) < 4 THEN None
    ELSE IF AsUsize(ReadHash(buf, st.offset + 4 + index * 4, e)) > Len(buf) - st.offset
    THEN None
    ELSE PosStep(buf, e, st, key, start, end, index,
                 ReadStr(buf, st.offset + AsUsize(ReadHash(buf, st.offset + 4 + index * 4, e))))

PosLoop(buf, e, st, key, start, end) ==
    IF start >= end THEN None
    ELSE PosAt(buf, e, st, key, start, end, (start + end) \div 2)

\* BymlStringTableReader::pos
StringTable_pos(buf, e, st, key) ==
    IF st.len = 0 THEN None ELSE PosLoop(buf, e, st, key, 0, st.len)

\* BymlIter::parse_container: BymlContainerHeader::try_read on data[offset..].
parse_container(it, offset) ==
    IF offset > Len(it.data) THEN Panic
    ELSE IF Len(it.data) - offset < 4 THEN Err("BinarySerDe")
    ELSE IF ~IsNodeType(NodeType_try_read(it.data, offset)) THEN Err("BinarySerDe")
    ELSE [tag |-> "Ok",
          node_type |-> NodeType_try_read(it.data, offset),
          len |-> ReadU24(it.data, offset + 1, it.endian)]

\* BymlIter::root_node: None without a root or when its header does not parse.
root_node(it) ==
    IF it.root_node_idx = 0 THEN None
    ELSE IF parse_container(it, it.root_node_idx) = Panic THEN Panic
    ELSE IF parse_container(it, it.root_node_idx).tag = "Err" THEN None
    ELSE Some(parse_container(it, it.root_node_idx))

\* BymlIter::key_table and string_table.
key_table(it) ==
    StringTable_new(it.data, Header_try_read(it.data).hash_key_table_offset, it.endian)

string_table(it) ==
    StringTable_new(it.data, Header_try_read(it.data).string_table_offset, it.endian)

\* The position of the highest set bit of a non-zero u32.
HighBit(w) ==
    LET half == IF w[1] > 0 THEN w[1] ELSE w[2]
        p == CHOOSE b \in 0..15 : 2^b <= half /\ half < 2^(b + 1)
    IN  IF w[1] > 0 THEN 16 + p ELSE p

\* `value as f32`: the numeric conversion of the u32 to the nearest binary32
\* (ties to even), given as the bit pattern of that binary32. Below 2^24 the
\* integer is exact; above, the low p - 23 bits are rounded away.
U32AsF32(w) ==
    IF w = <<0, 0>> THEN <<0, 0>>
    ELSE
    LET p == HighBit(w)
        k == p - 23
        q == IF p <= 23 THEN (w[1] * 65536 + w[2]) * 2^(23 - p)
             ELSE w[1] * (65536 \div 2^k) + (w[2] \div 2^k)
        rem == IF p <= 23 THEN 0 ELSE w[2] % 2^k
        half == IF p <= 23 THEN 1 ELSE 2^(k - 1)
        r == IF rem > half \/ (rem = half /\ q % 2 = 1) THEN q + 1 ELSE q
        bits == (127 + p) * 8388608 + (r - 8388608)
    IN  <<bits \div 65536, bits % 65536>>

\* BymlNode::new: the node's tag and what it carries, as a 32-bit pattern: the
\* offset or index, the u32, the bits of the i32 (`value as i32` keeps them),
\* the bits of the f32 that `value as f32` gives, and 1 or 0 for the bool
\* `value == 1`.
BymlNode_new(value, node_type) ==
    [node_type |-> node_type,
     value |-> IF node_type = "Float" THEN U32AsF32(value)
               ELSE IF node_type = "Bool" THEN <<0, IF value = <<0, 1>> THEN 1 ELSE 0>>
               ELSE value]

(***************************************************************************)
(* The container iterators.  An iterator is the record of its fields:      *)
(* kind (Array, Map, HashMap, ValueHashMap), base (the offset of the       *)
(* container, whose bytes are data[base..]), len, invalid and, for a Map,  *)
(* strings (the key table); its position is the `index` of the operators.  *)
(***************************************************************************)
\* BymlArrayIterator::new, BymlMapIterator::new, BymlHashMapIterator::new.
IterNew(it, kind, offset, node, strings) ==
    [kind |-> kind, base |-> offset, len |-> node.len, strings |-> strings,
     invalid |-> IF kind = "Map" THEN Len(it.data) - offset < node.len * 8
                 ELSE IF kind = "Array" THEN Len(it.data) - offset < node.len * 5 + 4
                 ELSE Len(it.data) - offset < 4 + node.len * 9]

\* The iterator over the container at `offset` with header `node`: a Map's is
\* built only when key_table() is Ok.
IterOver(it, kind, offset, node) ==
    IF kind # "Map" THEN Some(IterNew(it, kind, offset, node, None))
    ELSE IF key_table(it) = Panic THEN Panic
    ELSE IF key_table(it).tag = "Err" THEN None
    ELSE Some(IterNew(it, kind, offset, node, key_table(it)))

\* iter_as_array, iter_as_map, iter_as_hash_map, iter_as_value_hash_map.
iter_as(it, kind) ==
    IF root_node(it) = Panic THEN Panic
    ELSE IF ~root_node(it).some THEN None
    ELSE IF root_node(it).v.node_type # kind THEN None
    ELSE IterOver(it, kind, it.root_node_idx, root_node(it).v)

\* iter_array_data, iter_map_data, iter_hash_map_data, iter_value_hash_map_data.
iter_data(it, kind, node) ==
    IF node.node_type # kind THEN None
    ELSE IF parse_container(it, AsUsize(node.value)) = Panic THEN Panic
    ELSE IF parse_container(it, AsUsize(node.value)).tag = "Err" THEN None
    ELSE IterOver(it, kind, AsUsize(node.value), parse_container(it, AsUsize(node.value)))

\* The bytes left in the container's slice from relative offset `rel`
\* (negative: the slice data[rel..] is out of range and the code panics).
Left(it, iter, rel) == Len(it.data) - iter.base - rel

\* BymlMapIterator::next at `index`.
MapKeyed(key, node) ==
    IF key = Panic THEN Panic
    ELSE IF ~key.some THEN None
    ELSE Some(<<key.v, node>>)

MapNext(it, iter, index) ==
    IF iter.invalid THEN None
    ELSE IF Left(it, iter, 4 + index * 8) < 0 THEN Panic
    ELSE IF Left(it, iter, 4 + index * 8) < 8 THEN None
    ELSE IF ~IsNodeType(NodeType_try_read(it.data, iter.base + 4 + index * 8 + 3)) THEN None
    ELSE MapKeyed(
            StringTable_get(it.data, it.endian, iter.strings,
                            ReadU24(it.data, iter.base + 4 + index * 8, it.endian)),
            BymlNode_new(ReadHash(it.data, iter.base + 4 + index * 8 + 4, it.endian),
                         NodeType_try_read(it.data, iter.base + 4 + index * 8 + 3)))

\* BymlArrayIterator::value_start
value_start(iter) == align(4 + iter.len, 4)

\* BymlArrayIterator::next at `index`.
ArrayNext(it, iter, index) ==
    IF iter.invalid THEN None
    ELSE IF Left(it, iter, 4 + index) < 0 THEN Panic
    ELSE IF ~IsNodeType(NodeType_try_read(it.data, iter.base + 4 + index)) THEN None
    ELSE IF Left(it, iter, value_start(iter) + index * 4) < 0 THEN Panic
    ELSE IF Left(it, iter, value_start(iter) + index * 4) < 4 THEN None
    ELSE Some(BymlNode_new(
                ReadHash(it.data, iter.base + value_start(iter) + index * 4, it.endian),
                NodeType_try_read(it.data, iter.base + 4 + index)))

\* The size of a record of a HashMap or of a ValueHashMap.
RecordSize(iter) == IF iter.kind = "ValueHashMap" THEN 12 ELSE 8

\* BymlHashMapIterator::next at `index`.
HashMapNext(it, iter, index) ==
    IF iter.invalid THEN None
    ELSE IF Left(it, iter, 4 + index * RecordSize(iter)) < 0 THEN Panic
    ELSE IF Left(it, iter, 4 + index * RecordSize(iter)) < 4 THEN None
    ELSE IF Left(it, iter, 4 + index * RecordSize(iter) + 4) < 4 THEN None
    ELSE IF Left(it, iter, 4 + iter.len * RecordSize(iter) + index) < 0 THEN Panic
    ELSE IF ~IsNodeType(NodeType_try_read(it.data,
                iter.base + 4 + iter.len * RecordSize(iter) + index)) THEN None
    ELSE Some(<<ReadHash(it.data, iter.base + 4 + index * RecordSize(iter), it.endian),
                BymlNode_new(
                    ReadHash(it.data, iter.base + 4 + index * RecordSize(iter) + 4, it.endian),
                    NodeType_try_read(it.data,
                        iter.base + 4 + iter.len * RecordSize(iter) + index))>>)

\* Iterator::next of the iterator, at `index`.
IterNextAt(it, iter, index) ==
    IF iter.kind = "Map" THEN MapNext(it, iter, index)
    ELSE IF iter.kind = "Array" THEN ArrayNext(it, iter, index)
    ELSE HashMapNext(it, iter, index)

\* What a loop over the iterator sees from `index` on: the items up to the
\* first None, or the panic of a next().
RECURSIVE Collect(_, _, _, _)
CollectStep(it, iter, index, acc, n) ==
    IF n = Panic THEN Panic
    ELSE IF ~n.some THEN [tag |-> "Ok", items |-> acc]
    ELSE Collect(it, iter, index + 1, Append(acc, n.v))

Collect(it, iter, index, acc) == CollectStep(it, iter, index, acc, IterNextAt(it, iter, index))

\* Iterator::nth(i): next() i + 1 times.
RECURSIVE NthFrom(_, _, _, _)
NthStep(it, iter, index, i, n) ==
    IF n = Panic THEN Panic
    ELSE IF ~n.some THEN None
    ELSE IF index = i THEN n
    ELSE NthFrom(it, iter, index + 1, i)

NthFrom(it, iter, index, i) == NthStep(it, iter, index, i, IterNextAt(it, iter, index))

\* One round of BymlMapIterator::find_by_key's loop at `index`.
RECURSIVE MapFindLoop(_, _, _, _, _)
MapFindAt(it, iter, key_index, start, end, index) ==
    IF Left(it, iter, 4 + index * 8) < 0 THEN Panic
    ELSE IF Left(it, iter, 4 + index * 8) < 8 THEN None
    ELSE IF ~IsNodeType(NodeType_try_read(it.data, iter.base + 4 + index * 8 + 3)) THEN None
    ELSE IF ReadU24(it.data, iter.base + 4 + index * 8, it.endian) = key_index
    THEN Some(BymlNode_new(ReadHash(it.data, iter.base + 4 + index * 8 + 4, it.endian),
                           NodeType_try_read(it.data, iter.base + 4 + index * 8 + 3)))
    ELSE IF ReadU24(it.data, iter.base + 4 + index * 8, it.endian) < key_index
    THEN MapFindLoop(it, iter, key_index, index + 1, end)
    ELSE MapFindLoop(it, iter, key_index, start, index)

MapFindLoop(it, iter, key_index, start, end) ==
    IF start >= end THEN None
    ELSE MapFindAt(it, iter, key_index, start, end, (start + end) \div 2)

\* The hit of BymlHashMapIterator::find_by_key at `index`: the value and the
\* tag at the same index of the tag table.
HashMapHit(it, iter, index) ==
    IF Left(it, iter, 4 + index * RecordSize(iter) + 4) < 4 THEN None
    ELSE IF Left(it, iter, 4 + iter.len * RecordSize(iter) + index) < 0 THEN Panic
    ELSE IF ~IsNodeType(NodeType_try_read(it.data,
                iter.base + 4 + iter.len * RecordSize(iter) + index)) THEN None
    ELSE Some(BymlNode_new(
                ReadHash(it.data, iter.base + 4 + index * RecordSize(iter) + 4, it.endian),
                NodeType_try_read(it.data,
                    iter.base + 4 + iter.len * RecordSize(iter) + index)))

\* One round of BymlHashMapIterator::find_by_key's loop at `index`.
RECURSIVE HashMapFindLoop(_, _, _, _, _)
HashMapFindAt(it, iter, key, start, end, index) ==
    IF Left(it, iter, 4 + index * RecordSize(iter)) < 0 THEN Panic
    ELSE IF Left(it, iter, 4 + index * RecordSize(iter)) < 4 THEN None
    ELSE IF ReadHash(it.data, iter.base + 4 + index * RecordSize(iter), it.endian) = key
    THEN HashMapHit(it, iter, index)
    ELSE IF HashLess(ReadHash(it.data, iter.base + 4 + index * RecordSize(iter), it.endian),
                     key)
    THEN HashMapFindLoop(it, iter, key, index + 1, end)
    ELSE HashMapFindLoop(it, iter, key, start, index)

HashMapFindLoop(it, iter, key, start, end) ==
    IF start >= end THEN None
    ELSE HashMapFindAt(it, iter, key, start, end, (start + end) \div 2)

\* Wrong on purpose: a lookup that answers with the iterator's first item
\* whatever the key.
FindFirstItem(it, iter, key) ==
    IF iter.kind = "Map"
    THEN (IF MapNext(it, iter, 0).some THEN Some(MapNext(it, iter, 0).v[2]) ELSE None)
    ELSE (IF HashMapNext(it, iter, 0).some THEN Some(HashMapNext(it, iter, 0).v[2]) ELSE None)

\* BymlMapIterator::find_by_key (key: a key index) and
\* BymlHashMapIterator::find_by_key (key: a hash).
find_by_key(it, iter, key) ==
    IF iter.invalid THEN None
    ELSE IF iter.kind = "Map" THEN MapFindLoop(it, iter, key, 0, iter.len)
    ELSE HashMapFindLoop(it, iter, key, 0, iter.len)

\* BymlIter::get_key_index
get_key_index(it, s) ==
    IF key_table(it) = Panic THEN Panic
    ELSE IF key_table(it).tag = "Err" THEN None
    ELSE StringTable_pos(it.data, it.endian, key_table(it), s)

\* Option::and_then and Option::or_else, a panic passing through.
AndFind(it, iter, key) ==
    IF iter = Panic THEN Panic
    ELSE IF ~iter.some THEN None
    ELSE find_by_key(it, iter.v, key)

AndNth(it, iter, i) ==
    IF iter = Panic THEN Panic
    ELSE IF ~iter.some THEN None
    ELSE NthFrom(it, iter.v, 0, i)

OrElse(a, b) == IF a = Panic THEN Panic ELSE IF a.some THEN a ELSE b

\* The body get and get_from share.  A key is [idx |-> "ArrayIdx", v |-> i],
\* [idx |-> "StringIdx", v |-> s] or [idx |-> "HashIdx", v |-> h].
GetIn(it, key, array, map, hash_map, value_hash_map) ==
    IF key.idx = "ArrayIdx" THEN AndNth(it, array, key.v)
    ELSE IF key.idx = "StringIdx"
    THEN (IF get_key_index(it, key.v) = Panic THEN Panic
          ELSE IF ~get_key_index(it, key.v).some THEN None
          ELSE AndFind(it, map, get_key_index(it, key.v).v))
    ELSE OrElse(AndFind(it, hash_map, key.v), AndFind(it, value_hash_map, key.v))

\* BymlIter::get
BymlIter_get(it, key) ==
    GetIn(it, key, iter_as(it, "Array"), iter_as(it, "Map"),
          iter_as(it, "HashMap"), iter_as(it, "ValueHashMap"))

\* BymlIter::get_from
get_from(it, node, key) ==
    GetIn(it, key, iter_data(it, "Array", node), iter_data(it, "Map", node),
          iter_data(it, "HashMap", node), iter_data(it, "ValueHashMap", node))

\* BymlIter::get_string_data
get_string_data(it, node) ==
    IF node.node_type # "String" THEN None
    ELSE IF string_table(it) = Panic THEN Panic
    ELSE IF string_table(it).tag = "Err" THEN None
    ELSE StringTable_get(it.data, it.endian, string_table(it), AsUsize(node.value))

\* get_i64_data, get_u64_data, get_double_data: the eight bytes at the offset,
\* as <<high u32, low u32>>.
get_64_data(it, node) ==
    IF node.node_type \notin {"I64", "U64", "Double"} THEN None
    ELSE IF AsUsize(node.value) > Len(it.data) THEN Panic
    ELSE IF Len(it.data) - AsUsize(node.value) < 8 THEN None
    ELSE IF it.endian = "Little"
    THEN Some(<<ReadHash(it.data, AsUsize(node.value) + 4, it.endian),
                ReadHash(it.data, AsUsize(node.value), it.endian)>>)
    ELSE Some(<<ReadHash(it.data, AsUsize(node.value), it.endian),
                ReadHash(it.data, AsUsize(node.value) + 4, it.endian)>>)

\* The body of get_binary_data and get_file_data on the offset of a node the
\* code matched: the `size` bytes after a preamble of `pre` bytes.
SizedBytes(it, offset, pre) ==
    IF offset > Len(it.data) THEN Panic
    ELSE IF Len(it.data) - offset < 4 THEN None
    ELSE IF Len(it.data) - offset - pre < AsUsize(ReadHash(it.data, offset, it.endian))
    THEN None
    ELSE Some(Slice(it.data, offset + pre,
                    offset + pre + AsUsize(ReadHash(it.data, offset, it.endian))))

\* BymlIter::get_binary_data
get_binary_data(it, node) ==
    IF node.node_type # "Binary" THEN None ELSE SizedBytes(it, AsUsize(node.value), 4)

\* BymlIter::get_file_data: the pattern it matches is BymlNode::Binary.
get_file_data(it, node) ==
    IF node.node_type # "Binary" THEN None ELSE SizedBytes(it, AsUsize(node.value), 8)

(***************************************************************************)
(* The materializer.  An owned tree is [t |-> variant, v |-> value]: an    *)
(* Array's value is the sequence of its children, a Map's and a HashMap's  *)
(* the function from its keys to its children (FxHashMap: a later insert   *)
(* of a key replaces the earlier one), a blob's and a string's the bytes,  *)
(* a 32-bit scalar's the u32 the code converts.                            *)
(***************************************************************************)
Ok(v) == [tag |-> "Ok", v |-> v]

\* collect() into an FxHashMap from the pairs in order.
PairsToMap(pairs) ==
    [k \in {pairs[i][1] : i \in DOMAIN pairs} |->
        pairs[CHOOSE i \in DOMAIN pairs :
                /\ pairs[i][1] = k
                /\ \A j \in DOMAIN pairs : j > i => pairs[j][1] # k][2]]

\* The Byml a container's collected items become; a ValueHashMap's items are
\* collected into Byml::HashMap.
ContainerOf(kind, items) ==
    IF kind = "Array" THEN [t |-> "Array", v |-> items]
    ELSE IF kind = "Map" THEN [t |-> "Map", v |-> PairsToMap(items)]
    ELSE [t |-> "HashMap", v |-> PairsToMap(items)]

\* ok_or(BadInput) on what a get_*_data returned.
OkOr(t, opt) ==
    IF opt = Panic THEN Panic
    ELSE IF ~opt.some THEN Err("BinarySerDe")
    ELSE Ok([t |-> t, v |-> opt.v])

\* BymlIter::node_to_byml.  `path` holds the (kind, offset) of the containers
\* being materialized: a container met again under itself is materialized
\* again without end, and the recursion exhausts the stack.
RECURSIVE node_to_byml(_, _, _)
RECURSIVE MaterializeFrom(_, _, _, _, _)
MaterializeItem(it, iter, index, path, acc, item, child) ==
    IF child = Panic THEN Panic
    ELSE IF child.tag = "Err" THEN child
    ELSE MaterializeFrom(it, iter, index + 1, path,
            Append(acc, IF iter.kind = "Array" THEN child.v ELSE <<item[1], child.v>>))

MaterializeNext(it, iter, index, path, acc, n) ==
    IF n = Panic THEN Panic
    ELSE IF ~n.some THEN Ok(ContainerOf(iter.kind, acc))
    ELSE MaterializeItem(it, iter, index, path, acc, n.v,
            node_to_byml(it, IF iter.kind = "Array" THEN n.v ELSE n.v[2], path))

\* map(..).collect::<Result<_>>() over the iterator from `index`.
MaterializeFrom(it, iter, index, path, acc) ==
    MaterializeNext(it, iter, index, path, acc, IterNextAt(it, iter, index))

MaterializeContainer(it, node, path, iter) ==
    IF iter = Panic THEN Panic
    ELSE IF ~iter.some THEN Err("BinarySerDe")
    ELSE IF <<node.node_type, AsUsize(node.value)>> \in path THEN Panic
    ELSE MaterializeFrom(it, iter.v, 0, path \cup {<<node.node_type, AsUsize(node.value)>>},
                         <<>>)

node_to_byml(it, node, path) ==
    IF is_container_type(node.node_type)
    THEN MaterializeContainer(it, node, path, iter_data(it, node.node_type, node))
    ELSE IF node.node_type = "String" THEN OkOr("String", get_string_data(it, node))
    ELSE IF node.node_type = "Binary" THEN OkOr("BinaryData", get_binary_data(it, node))
    ELSE IF node.node_type = "File" THEN OkOr("FileData", get_file_data(it, node))
    ELSE IF node.node_type = "StringTable" THEN Panic      \* unimplemented!()
    ELSE IF node.node_type \in {"I64", "U64", "Double"}
    THEN OkOr(node.node_type, get_64_data(it, node))
    ELSE IF node.node_type = "Null" THEN Ok([t |-> "Null", v |-> <<>>])
    ELSE IF node.node_type = "Bool" THEN Ok([t |-> "Bool", v |-> node.value = <<0, 1>>])
    ELSE Ok([t |-> node.node_type, v |-> node.value])

\* The u32 pair of an offset.
AsU32(n) == <<n \div 65536, n % 65536>>

\* TryFrom<&BymlIter> for Byml
Byml_try_from(it) ==
    IF root_node(it) = Panic THEN Panic
    ELSE IF ~root_node(it).some THEN Ok([t |-> "Null", v |-> <<>>])
    ELSE node_to_byml(it, BymlNode_new(AsU32(it.root_node_idx), root_node(it).v.node_type),
                      {})

\* Byml::from_binary on a buffer that does not start with "Yaz0".
from_binary(buf) ==
    IF BymlIter_new(buf).tag = "Err" THEN BymlIter_new(buf)
    ELSE Byml_try_from(BymlIter_new(buf))

(***************************************************************************)
(* The BYML documents of the model: well-formed documents of each shape,   *)
(* in both byte orders, as a third-party tool lays them out.               *)
(***************************************************************************)
U24Bytes(v, e) ==
    IF e = "Little" THEN <<v % 256, (v \div 256) % 256, v \div 65536>>
    ELSE <<v \div 65536, (v \div 256) % 256, v % 256>>

BymlHeaderBytes(e, keys, strings, root) ==
    (IF e = "Big" THEN <<66, 89>> ELSE <<89, 66>>) \o U16Bytes(2, e)
        \o U32Bytes(keys, e) \o U32Bytes(strings, e) \o U32Bytes(root, e)

\* The string table of the keys "a" and "b" (16 bytes).
KeyTableBytes(e) ==
    <<194>> \o U24Bytes(2, e) \o U32Bytes(12, e) \o U32Bytes(14, e) \o <<97, 0, 98, 0>>

\* The string table of the one string "x" (12 bytes).
StringTableBytes(e) == <<194>> \o U24Bytes(1, e) \o U32Bytes(8, e) \o <<120, 0, 0, 0>>

MapEntryBytes(key_index, tag, value, e) ==
    U24Bytes(key_index, e) \o <<tag>> \o U32Bytes(value, e)

\* An empty document: the header alone, its three offsets zero.
DocEmpty(e) == BymlHeaderBytes(e, 0, 0, 0)

\* Root Map at 44: {a: I32 5, b: String 0 ("x")}.
DocMap(e) ==
    BymlHeaderBytes(e, 16, 32, 44) \o KeyTableBytes(e) \o StringTableBytes(e)
        \o <<193>> \o U24Bytes(2, e)
        \o MapEntryBytes(0, 209, 5, e) \o MapEntryBytes(1, 160, 0, e)

\* Root Array at 32 of four items: an I32 whose bytes are D1 00 00 00, Bool
\* true, the Map {b: U32 6} at 56 and the U64 7 at 68.
DocArray(e) ==
    BymlHeaderBytes(e, 16, 0, 32) \o KeyTableBytes(e)
        \o <<192>> \o U24Bytes(4, e) \o <<209, 208, 193, 213>>
        \o <<209, 0, 0, 0>> \o U32Bytes(1, e) \o U32Bytes(56, e) \o U32Bytes(68, e)
        \o <<193>> \o U24Bytes(1, e) \o MapEntryBytes(1, 211, 6, e)
        \o (IF e = "Little" THEN U32Bytes(7, e) \o U32Bytes(0, e)
            ELSE U32Bytes(0, e) \o U32Bytes(7, e))

\* Root HashMap at 16: {1: I32 7, 3: U32 9}.
DocHashMap(e) ==
    BymlHeaderBytes(e, 0, 0, 16)
        \o <<32>> \o U24Bytes(2, e)
        \o U32Bytes(1, e) \o U32Bytes(7, e) \o U32Bytes(3, e) \o U32Bytes(9, e)
        \o <<209, 211, 0, 0>>

\* Root ValueHashMap at 16: {2: (I32 7, 99)}.
DocValueHashMap(e) ==
    BymlHeaderBytes(e, 0, 0, 16)
        \o <<33>> \o U24Bytes(1, e)
        \o U32Bytes(2, e) \o U32Bytes(7, e) \o U32Bytes(99, e)
        \o <<209, 0, 0, 0>>

\* Root Array at 16 of a File (size 2, sub-type word 4, bytes 07 09) at 32 and
\* a Binary (size 3, bytes 05 06 07) at 44.
DocFile(e) ==
    BymlHeaderBytes(e, 0, 0, 16)
        \o <<192>> \o U24Bytes(2, e) \o <<162, 161, 0, 0>>
        \o U32Bytes(32, e) \o U32Bytes(44, e)
        \o U32Bytes(2, e) \o U32Bytes(4, e) \o <<7, 9, 0, 0>>
        \o U32Bytes(3, e) \o <<5, 6, 7, 0>>

DocNames == {"Empty", "Map", "Array", "HashMap", "ValueHashMap", "File"}

DocBytes(name, e) ==
    CASE name = "Empty" -> DocEmpty(e)
      [] name = "Map" -> DocMap(e)
      [] name = "Array" -> DocArray(e)
      [] name = "HashMap" -> DocHashMap(e)
      [] name = "ValueHashMap" -> DocValueHashMap(e)
      [] name = "File" -> DocFile(e)

SeedDocs == [doc : DocNames, endian : Endians]

\* The keys the model asks for.
BymlKeys ==
    [idx : {"ArrayIdx"}, v : {0, 4}]
    \cup [idx : {"StringIdx"}, v : {<<97>>, <<98>>, <<99>>}]
    \cup [idx : {"HashIdx"}, v : {<<0, 1>>, <<0, 2>>}]

\* The bytes a third party overwrites in a document: the low byte of the
\* version and of the three offsets of the header, and the first twelve bytes
\* of the root container (its header and the start of its records).
BymlCorruptOffsets(buf) ==
    IF Header_try_read(buf).tag = "Err" THEN {}
    ELSE { off \in
             { Lsb(2, 2, Header_try_read(buf).endian), Lsb(4, 4, Header_try_read(buf).endian),
               Lsb(8, 4, Header_try_read(buf).endian), Lsb(12, 4, Header_try_read(buf).endian) }
             \cup (IF Header_try_read(buf).root_node_offset = 0 THEN {}
                   ELSE { Header_try_read(buf).root_node_offset + d : d \in 0..11 }) :
           off < Len(buf) }

BymlCorruptValues == {0, 8, 209}

(***************************************************************************)
(* SpecByml: a BYML document of the model, possibly with bytes overwritten *)
(* by a third party, is given to Byml::from_binary or to BymlIter::new,    *)
(* and the BymlIter is asked through its public methods.                   *)
(***************************************************************************)
BymlRet(op, arg, r) ==
    IF r = Panic THEN [tag |-> "Panic", op |-> op, arg |-> arg]
    ELSE [tag |-> op, arg |-> arg, result |-> r]

\* A `for` loop over the iterator a method returned: None, the items seen up
\* to the first None of next(), or a panic.
Iterate(it, iter) ==
    IF iter = Panic THEN Panic
    ELSE IF ~iter.some THEN [tag |-> "None"]
    ELSE Collect(it, iter.v, 0, <<>>)

\* The node reference of the root, as TryFrom builds it.
RootNode(it) == BymlNode_new(AsU32(it.root_node_idx), root_node(it).v.node_type)

ItemNodes(kind, items) ==
    { IF kind = "Array" THEN items[i] ELSE items[i][2] : i \in DOMAIN items }

\* The node references a caller holds: the root's and those the iteration of
\* the root container gave.
BymlNodes(it) ==
    IF root_node(it) = Panic THEN {}
    ELSE IF ~root_node(it).some THEN {}
    ELSE IF ~is_container_type(root_node(it).v.node_type) THEN {RootNode(it)}
    ELSE IF Iterate(it, iter_as(it, root_node(it).v.node_type)).tag # "Ok" THEN {RootNode(it)}
    ELSE {RootNode(it)}
         \cup ItemNodes(root_node(it).v.node_type,
                        Iterate(it, iter_as(it, root_node(it).v.node_type)).items)

\* The accessor of the node's variant: iter_*_data and a loop over it for a
\* container, get_*_data for an out-of-line value.
NodeData(it, node) ==
    IF is_container_type(node.node_type)
    THEN Iterate(it, iter_data(it, node.node_type, node))
    ELSE IF node.node_type = "String" THEN get_string_data(it, node)
    ELSE IF node.node_type = "Binary" THEN get_binary_data(it, node)
    ELSE IF node.node_type = "File" THEN get_file_data(it, node)
    ELSE get_64_data(it, node)

OutOfLine(node) ==
    \/ is_container_type(node.node_type)
    \/ node.node_type \in {"String", "Binary", "File", "I64", "U64", "Double"}

\* The methods of BymlIter take &self and change nothing: the model asks each
\* of them once, on the BymlIter just built.
Fresh == Readable /\ ret.tag = "BymlIter::new"

HeldNodes == IF Fresh THEN BymlNodes(sarc) ELSE {}

BymlIterNew ==
    /\ Running /\ sarc = NoSarc /\ ret = Unit
    /\ sarc' = BymlIter_new(data)
    /\ ret' = BymlRet("BymlIter::new", data, BymlIter_new(data))
    /\ UNCHANGED <<writer, seed, data, ncorrupt>>

FromBinary ==
    /\ Running /\ sarc = NoSarc /\ ret = Unit
    /\ ret' = BymlRet("from_binary", data, from_binary(data))
    /\ UNCHANGED <<writer, seed, data, sarc, ncorrupt>>

BymlGet(key) ==
    /\ Fresh
    /\ ret' = BymlRet("get", key, BymlIter_get(sarc, key))
    /\ UNCHANGED <<writer, seed, data, sarc, ncorrupt>>

BymlGetFrom(node, key) ==
    /\ Fresh
    /\ is_container_type(node.node_type)
    /\ ret' = BymlRet("get_from", <<node, key>>, get_from(sarc, node, key))
    /\ UNCHANGED <<writer, seed, data, sarc, ncorrupt>>

BymlIterAs(kind) ==
    /\ Fresh
    /\ ret' = BymlRet("iter_as", kind, Iterate(sarc, iter_as(sarc, kind)))
    /\ UNCHANGED <<writer, seed, data, sarc, ncorrupt>>

BymlNodeData(node) ==
    /\ Fresh
    /\ OutOfLine(node)
    /\ ret' = BymlRet("node_data", node, NodeData(sarc, node))
    /\ UNCHANGED <<writer, seed, data, sarc, ncorrupt>>

InitByml ==
    /\ writer = NoWriter
    /\ seed \in SeedDocs
    /\ data = DocBytes(seed.doc, seed.endian)
    /\ sarc = NoSarc
    /\ ret = Unit
    /\ ncorrupt = 0

NextByml ==
    \/ \E off \in BymlCorruptOffsets(data), val \in BymlCorruptValues :
          ret = Unit /\ Corrupt(off, val)
    \/ BymlIterNew
    \/ FromBinary
    \/ \E key \in BymlKeys : BymlGet(key)
    \/ \E node \in HeldNodes, key \in BymlKeys : BymlGetFrom(node, key)
    \/ \E kind \in {"Array", "Map", "HashMap", "ValueHashMap"} : BymlIterAs(kind)
    \/ \E node \in HeldNodes : BymlNodeData(node)

SpecByml == InitByml /\ [][NextByml]_vars

(***************************************************************************)
(* Claims about the BYML reader and materializer, over SpecByml.           *)
(***************************************************************************)
\* The buffer has a valid magic and sixteen bytes: its header can be read.
HeaderReadable(buf) == Header_try_read(buf).tag = "Ok"

RootOffset(buf) == Header_try_read(buf).root_node_offset

\* The u24 count of the container at `base`.
CountAt(buf, base) == ReadU24(buf, base + 1, Header_try_read(buf).endian)

\* C12 (as claimed): a BYML document whose header version is outside 1..=7
\* fails: BymlIter::new and Byml::from_binary return Err for every buffer with
\* a valid magic and version 0 or version >= 8.
C12_InvalidVersionRejected ==
    (/\ ret.tag \in {"BymlIter::new", "from_binary"}
     /\ HeaderReadable(ret.arg)
     /\ ~is_valid_version(Header_try_read(ret.arg).version)) =>
        ret.result.tag = "Err"

\* C13 (as claimed): with a non-zero root offset the root must be a container:
\* from_binary returns Err when the byte at the root offset is not the tag of
\* a container, and never returns Ok(Null) or Ok of a scalar.
C13_RootMustBeContainer ==
    (/\ ret.tag = "from_binary"
     /\ HeaderReadable(ret.arg)
     /\ RootOffset(ret.arg) # 0) =>
        /\ ~is_container_type(NodeType_try_read(ret.arg, RootOffset(ret.arg))) =>
              ret.result.tag = "Err"
        /\ ret.result.tag = "Ok" =>
              ret.result.v.t \in {"Array", "Map", "HashMap", "ValueHashMap"}

\* C14 (as claimed): a ValueHashMap node materializes to the ValueHashMap
\* variant, each hash mapped to the pair of the materialized value and the
\* auxiliary u32 of its 12-byte record.
C14_ValueHashMapKeepsAux ==
    (/\ ret.tag = "from_binary"
     /\ ret.result.tag = "Ok"
     /\ RootOffset(ret.arg) # 0
     /\ NodeType_try_read(ret.arg, RootOffset(ret.arg)) = "ValueHashMap") =>
        /\ ret.result.v.t = "ValueHashMap"
        /\ \A i \in 0..(CountAt(ret.arg, RootOffset(ret.arg)) - 1) :
              ret.result.v.v[ReadHash(ret.arg, RootOffset(ret.arg) + 4 + 12 * i,
                                      Header_try_read(ret.arg).endian)][2]
                = ReadHash(ret.arg, RootOffset(ret.arg) + 4 + 12 * i + 8,
                           Header_try_read(ret.arg).endian)

\* The size field of the blob at the node's offset, and whether the blob's
\* bytes after a preamble of `pre` bytes are within the buffer.
BlobSize(it, node) == AsUsize(ReadHash(it.data, AsUsize(node.value), it.endian))

BlobWithin(it, node, pre) ==
    /\ AsUsize(node.value) + 4 <= Len(it.data)
    /\ BlobSize(it, node) <= Len(it.data) - AsUsize(node.value) - pre

\* C15 (as claimed): get_file_data on a File node at offset o returns the
\* `size` bytes at o + 8, size being the u32 at o, whenever they are within
\* the buffer.
C15_FileDataRead ==
    (/\ ret.tag = "node_data"
     /\ ret.arg.node_type = "File"
     /\ BlobWithin(sarc, ret.arg, 8)) =>
        ret.result = Some(Slice(sarc.data, AsUsize(ret.arg.value) + 8,
                                AsUsize(ret.arg.value) + 8 + BlobSize(sarc, ret.arg)))

\* The number of entries of a materialized container.
TreeSize(tree) ==
    IF tree.t = "Array" THEN Len(tree.v) ELSE Cardinality(DOMAIN tree.v)

\* C16 (as claimed): the materializer produces no partial tree: from_binary
\* never returns Ok with a container that holds fewer entries than the count
\* of the container's header.
C16_NoPartialTree ==
    (/\ ret.tag = "from_binary"
     /\ ret.result.tag = "Ok"
     /\ ret.result.v.t \in {"Array", "Map", "HashMap", "ValueHashMap"}) =>
        TreeSize(ret.result.v) >= CountAt(ret.arg, RootOffset(ret.arg))

\* C19 (as claimed): on a buffer BymlIter::new accepted, no call of get,
\* get_from, iter_as_*, iter_*_data, get_*_data and no next() of an iterator
\* they return panics.
C19_ReaderNeverPanics ==
    ~(ret.tag = "Panic" /\ ret.op \in {"get", "get_from", "iter_as", "node_data"})

\* C20 (as claimed): the iterator over the root container of a well-formed
\* document yields exactly `count` items, count being the u24 of the
\* container's header, and then None.
C20_IteratorYieldsCount ==
    (/\ ret.tag = "iter_as"
     /\ ncorrupt = 0
     /\ ret.result.tag = "Ok") =>
        Len(ret.result.items) = CountAt(sarc.data, sarc.root_node_idx)

\* The lookup `ret` records (a call that panicked keeps its name in ret.op),
\* its key, and the node reference of the container it asks: the root's for
\* get, the caller's for get_from.
LookupOp == IF ret.tag = "Panic" THEN ret.op ELSE ret.tag

IsBymlLookup ==
    /\ LookupOp \in {"get", "get_from"}
    /\ LookupOp = "get" => (root_node(sarc) # Panic /\ root_node(sarc).some)

LookupKey == IF LookupOp = "get" THEN ret.arg ELSE ret.arg[2]

LookupNode == IF LookupOp = "get" THEN RootNode(sarc) ELSE ret.arg[1]

LookupBase == AsUsize(LookupNode.value)

LookupCount == CountAt(sarc.data, LookupBase)

\* The container's header is in the buffer and carries the node's tag.
WfHeader ==
    /\ LookupBase + 4 <= Len(sarc.data)
    /\ NodeType_try_read(sarc.data, LookupBase) = LookupNode.node_type

\* The i-th string of the key table: the NUL-terminated bytes at its offset.
KeyString(i) ==
    ReadStr(sarc.data,
            key_table(sarc).offset
              + AsUsize(ReadHash(sarc.data, key_table(sarc).offset + 4 + 4 * i, sarc.endian)))

\* The key table is well formed: its offsets are in the buffer and point at
\* strings within it, stored in strictly ascending lexicographic order.
WfKeyTable ==
    /\ key_table(sarc) # Panic
    /\ key_table(sarc).tag = "Ok"
    /\ key_table(sarc).offset + 4 + 4 * key_table(sarc).len <= Len(sarc.data)
    /\ \A i \in 0..(key_table(sarc).len - 1) :
          /\ AsUsize(ReadHash(sarc.data, key_table(sarc).offset + 4 + 4 * i, sarc.endian))
               <= Len(sarc.data) - key_table(sarc).offset
          /\ KeyString(i).some
    /\ \A i \in 0..(key_table(sarc).len - 2) :
          StrCmp(KeyString(i).v, KeyString(i + 1).v) = "Less"

\* Entry i of the Map asked: its key index and its node (tag, value).
MapKeyIndex(i) == ReadU24(sarc.data, LookupBase + 4 + 8 * i, sarc.endian)

MapEntryNode(i) ==
    BymlNode_new(ReadHash(sarc.data, LookupBase + 4 + 8 * i + 4, sarc.endian),
                 NodeType_try_read(sarc.data, LookupBase + 4 + 8 * i + 3))

\* The Map is well formed: its records are in the buffer, carry valid tags
\* and key indexes of the key table, and are strictly ascending by key index.
WfMap ==
    /\ LookupBase + 4 + 8 * LookupCount <= Len(sarc.data)
    /\ \A i \in 0..(LookupCount - 1) :
          /\ IsNodeType(MapEntryNode(i).node_type)
          /\ MapKeyIndex(i) < key_table(sarc).len
    /\ \A i \in 0..(LookupCount - 2) : MapKeyIndex(i) < MapKeyIndex(i + 1)

\* Entry i of the HashMap or ValueHashMap asked: its hash and its node, the
\* tag at index i of the tag table that follows the records.
HashRecordSize == IF LookupNode.node_type = "ValueHashMap" THEN 12 ELSE 8

HashOfEntry(i) == ReadHash(sarc.data, LookupBase + 4 + HashRecordSize * i, sarc.endian)

HashEntryNode(i) ==
    BymlNode_new(
        ReadHash(sarc.data, LookupBase + 4 + HashRecordSize * i + 4, sarc.endian),
        NodeType_try_read(sarc.data, LookupBase + 4 + HashRecordSize * LookupCount + i))

\* The HashMap or ValueHashMap is well formed: records and tag table are in
\* the buffer, the tags are valid, the hashes strictly ascending.
WfHashMap ==
    /\ LookupBase + 4 + HashRecordSize * LookupCount + LookupCount <= Len(sarc.data)
    /\ \A i \in 0..(LookupCount - 1) : IsNodeType(HashEntryNode(i).node_type)
    /\ \A i \in 0..(LookupCount - 2) : HashLess(HashOfEntry(i), HashOfEntry(i + 1))

\* A linear scan of the entries for the key: the node of the first entry
\* whose key string (hash) is the key, or None.
MapScanHits == { i \in 0..(LookupCount - 1) : KeyString(MapKeyIndex(i)).v = LookupKey.v }

HashScanHits == { i \in 0..(LookupCount - 1) : HashOfEntry(i) = LookupKey.v }

FirstOf(hits) == CHOOSE i \in hits : \A j \in hits : i <= j

LinearScanMap ==
    IF MapScanHits = {} THEN None ELSE Some(MapEntryNode(FirstOf(MapScanHits)))

LinearScanHashMap ==
    IF HashScanHits = {} THEN None ELSE Some(HashEntryNode(FirstOf(HashScanHits)))

ComputedAlignments ==
    {get_alignment_for_file(writer, name, payload) : name \in Names, payload \in Payloads}

MaxOf(S) == CHOOSE a \in S : \A b \in S : b <= a

RECURSIVE LcmOf(_)
LcmOf(S) == IF S = {} THEN 1 ELSE LET a == CHOOSE x \in S : TRUE IN Lcm(a, LcmOf(S \ {a}))

C21_AlignmentsPowerOfTwo ==
    (writer # NoWriter /\ Running) =>
        /\ \A a \in ComputedAlignments : is_valid_alignment(a) /\ a >= 4
        /\ is_valid_alignment(LcmOf(ComputedAlignments))
        /\ LcmOf(ComputedAlignments) = MaxOf(ComputedAlignments)

\* ---------------------------------------------------------------------------
\* C22. Name presence flag: file_at reports the entry as named if and only if
\* the name flag of its rel_name_opt_offset is set, and an entry whose flag is
\* clear has the name None whatever its low 24 bits hold. The flag is taken
\* as any bit of the most significant byte (the writer sets 1 << 24). The
\* reader tests the whole word against zero instead, so a word with a zero
\* flag byte and non-zero low bits is reported as named.
NameFlagSet(entry) == entry.rel_name_opt_offset >= NAME_FLAG

C22_NamedIffFlag ==
    (Accepted /\ ret.tag = "file_at" /\ ret.result.tag = "Ok") =>
        ((ret.result.name # None) <=> NameFlagSet(StoredEntry(ret.arg)))

\* ---------------------------------------------------------------------------
\* BymlNode::new on its own: a 32-bit word is drawn, and the constructor is
\* applied to it with each node type.
Words ==
    {<<0, 0>>, <<0, 1>>, <<0, 2>>, <<256, 1>>, <<256, 3>>, <<16256, 0>>,
     <<32768, 0>>, <<65535, 65535>>}

NodeTypes == {NodeTypeOfTag[tag] : tag \in DOMAIN NodeTypeOfTag}

NodeNew(node_type) ==
    /\ ret = Unit
    /\ ret' = [tag |-> "BymlNode::new",
               arg |-> [value |-> ReadHash(data, 0, "Big"), node_type |-> node_type],
               result |-> BymlNode_new(ReadHash(data, 0, "Big"), node_type)]
    /\ UNCHANGED <<writer, seed, data, sarc, ncorrupt>>

InitNode ==
    /\ writer = NoWriter /\ seed = NoWriter /\ sarc = NoSarc
    /\ ncorrupt = 0 /\ ret = Unit
    /\ data \in {HashBytes(w, "Big") : w \in Words}

NextNode == \E node_type \in NodeTypes : NodeNew(node_type)

SpecNode == InitNode /\ [][NextNode]_vars

\* C23. Inline scalars are decoded by bit pattern: for every word w,
\* BymlNode::new(w, U32) carries w, BymlNode::new(w, I32) carries the i32 whose
\* bits are w, BymlNode::new(w, Float) carries the binary32 whose bits are w,
\* and BymlNode::new(w, Bool) carries true for w = 1 and false for w = 0.
\* The Float arm converts the integer numerically (`value as f32`), so the
\* word 1 gives 1.0 (bits 0x3F800000) and only the word 0 keeps its bits.
C23_ScalarsByBitPattern ==
    ret.tag = "BymlNode::new" =>
        /\ ret.arg.node_type \in {"U32", "I32", "Float"} => ret.result.value = ret.arg.value
        /\ (ret.arg.node_type = "Bool" /\ ret.arg.value \in {<<0, 0>>, <<0, 1>>}) =>
               ret.result.value = ret.arg.value

\* ---------------------------------------------------------------------------
\* C24. The two passes of write agree: in every archive to_binary returns, the
\* payload of each file is the bytes of the buffer from data_offset_begin +
\* data_begin to data_offset_begin + data_end of its FAT entry, the ranges of
\* distinct files do not overlap, and data_offset_begin is the end of the name
\* table aligned up to the LCM of the alignments computed for the files.
WrittenNamesEnd ==
    SARC_HEADER_SIZE + SFAT_HEADER_SIZE + FAT_ENTRY_SIZE * Len(writer.files)
    + SFNT_HEADER_SIZE + RelStringOffset(writer.files, Len(writer.files) + 1)

WrittenAlignments ==
    {get_alignment_for_file(writer, writer.files[i].name, writer.files[i].data) :
        i \in 1..Len(writer.files)}

C24_PassesAgree ==
    ret.tag = "to_binary" =>
        /\ WrittenNumFiles = Len(writer.files)
        /\ \A i \in 1..Len(writer.files) :
              /\ WrittenDataOffset + WrittenEntry(i - 1).data_end <= Len(ret.buf)
              /\ WrittenEntry(i - 1).data_begin <= WrittenEntry(i - 1).data_end
              /\ Slice(ret.buf, WrittenDataOffset + WrittenEntry(i - 1).data_begin,
                       WrittenDataOffset + WrittenEntry(i - 1).data_end)
                   = writer.files[i].data
        /\ \A i, j \in 1..Len(writer.files) :
              i < j => WrittenEntry(i - 1).data_end <= WrittenEntry(j - 1).data_begin
        /\ WrittenDataOffset = align(WrittenNamesEnd, LcmOf(WrittenAlignments))

\* Two files with payloads, the second one after a gap the alignment opens.
C24_Witness ==
    /\ ret.tag = "to_binary"
    /\ Len(writer.files) = 2
    /\ writer.files[1].data # <<>> /\ writer.files[2].data # <<>>
    /\ WrittenEntry(1).data_begin > WrittenEntry(0).data_end
    /\ WrittenDataOffset > WrittenNamesEnd

\* ---------------------------------------------------------------------------
\* C25. to_binary never fails: for every set of files and every alignment
\* configuration the est_size() bytes of the buffer are at least the length
\* write lays out, so to_binary does not panic.
C25_ToBinaryNeverFails ==
    ret.tag = "Panic" => ret.op # "to_binary"

\* ---------------------------------------------------------------------------
\* C26. When get(name) or try_get(name) returns a file from an accepted
\* archive, the stored name of that file is exactly `name`. The lookup
\* compares hashes only, so a name that collides with a stored one ("b\x01"
\* and "af" under 0x65) is answered with the stored file.
C26_ReturnedNameIsAsked ==
    (Accepted /\ ret.tag \in {"get", "try_get"} /\ ret.result.tag \in {"Some", "OkSome"}) =>
        (ret.result.file.name.some /\ ret.result.file.name.v = ret.arg)

\* ---------------------------------------------------------------------------
\* C27. For every accepted well-formed archive (one a writer produced, left
\* untouched), files() yields exactly len() items, the i-th item has the name,
\* the data and the index field of file_at(i), and file_at(i) is an Err exactly
\* when i >= len(). FileIterator::next increments self.index before it builds
\* the File, so the i-th item carries the index i + 1.
SameFile(f, g) ==
    /\ f.name.some = g.name.some
    /\ f.name.some => f.name.v = g.name.v
    /\ f.data = g.data
    /\ f.index = g.index

C27_FilesAgreeWithFileAt ==
    (Accepted /\ ncorrupt = 0) =>
        /\ Files(sarc).tag = "Ok"
        /\ Len(Files(sarc).items) = sarc.num_files
        /\ \A i \in 0..MaxFiles :
              (file_at(sarc, i).tag = "Err") <=> (i >= sarc.num_files)
        /\ \A i \in Entries :
              /\ file_at(sarc, i).tag = "Ok"
              /\ SameFile(Files(sarc).items[i + 1], file_at(sarc, i))

\* ---------------------------------------------------------------------------
\* C28. The binary search of find_file terminates for every accepted archive
\* and every name, sorted FAT or not: each probe has a <= m <= b with m below
\* num_files, the interval of the next probe is strictly shorter, there are at
\* most num_files probes, and a needle smaller than the hash at index 0 ends
\* the search instead of moving b below 0.
ProbesOf(name) ==
    IF sarc.num_files = 0 THEN <<>>
    ELSE FindProbes(sarc, hash_name(sarc.hash_multiplier, name), 0, sarc.num_files - 1,
                    sarc.num_files + 1)

ProbesShrink(tr, num_files) ==
    /\ Len(tr) <= num_files
    /\ \A k \in 1..Len(tr) :
          /\ 0 <= tr[k].a /\ tr[k].a <= tr[k].m /\ tr[k].m <= tr[k].b
          /\ tr[k].b < num_files
    /\ \A k \in 1..(Len(tr) - 1) :
          /\ tr[k + 1].b - tr[k + 1].a < tr[k].b - tr[k].a
          /\ tr[k].less => tr[k].m > 0

\* The probes are those of find_file: its index is the last one probed.
ProbesEndAt(tr, file_index) ==
    (file_index.tag = "Ok" /\ file_index.found) =>
        (tr # <<>> /\ tr[Len(tr)].m = file_index.index)

C28_SearchTerminates ==
    Accepted =>
        \A name \in LookupNames :
            /\ ProbesShrink(ProbesOf(name), sarc.num_files)
            /\ ProbesEndAt(ProbesOf(name), find_file(sarc, name))

\* An unsorted FAT of two entries, a name found after two probes and a name
\* whose hash is below the one at index 0.
C28_Witness ==
    /\ Accepted /\ sarc.num_files = 2 /\ ~FatSorted
    /\ \E name \in LookupNames : Len(ProbesOf(name)) = 2
    /\ \E name \in LookupNames :
          /\ Len(ProbesOf(name)) = 1
          /\ ProbesOf(name)[1].m = 0 /\ ProbesOf(name)[1].less

\* ---------------------------------------------------------------------------
\* C29. to_binary leaves the writer's name -> bytes mapping, endian, legacy
\* flag, hash multiplier and min_alignment unchanged; add_file sets the bytes
\* of one name and remove_file takes one name out, so that the mapping holds
\* the names added and not later removed, each with its last added bytes, and
\* no name twice. Only the order of files and the alignment table may differ
\* after a write.
FileNames(files) == {files[i].name : i \in 1..Len(files)}

FileMap(files) == [name \in FileNames(files) |-> files[FileIndex(files, name)].data]

MapWithout(m, k) == [x \in (DOMAIN m) \ {k} |-> m[x]]

NoNameTwice(files) == Cardinality(FileNames(files)) = Len(files)

IsToBinaryStep ==
    /\ writer # NoWriter
    /\ ret'.tag = "to_binary" \/ (ret'.tag = "Panic" /\ ret'.op = "to_binary")

C29_MappingKept ==
    [][/\ IsToBinaryStep =>
            /\ FileMap(writer'.files) = FileMap(writer.files)
            /\ writer'.endian = writer.endian
            /\ writer'.legacy = writer.legacy
            /\ writer'.hash_multiplier = writer.hash_multiplier
            /\ writer'.min_alignment = writer.min_alignment
       /\ \A name \in Names, payload \in Payloads :
            AddFile(name, payload) =>
                FileMap(writer'.files) = MapInsert(FileMap(writer.files), name, payload)
       /\ \A name \in Names :
            RemoveFile(name) =>
                FileMap(writer'.files) = MapWithout(FileMap(writer.files), name)
       /\ (writer # NoWriter /\ writer' # NoWriter) => NoNameTwice(writer'.files)]_vars

\* to_binary has returned the archive of two files, of a writer whose
\* min_alignment and legacy flag are not the defaults.
C29_Witness ==
    /\ ret.tag = "to_binary"
    /\ Len(writer.files) = 2
    /\ DOMAIN FileMap(writer.files) = {NameA, NameKsky}
    /\ writer.min_alignment = 2 /\ writer.legacy

\* ---------------------------------------------------------------------------
\* C30. After any sequence of new, from_sarc and set_endian calls, bin_endian
\* denotes the byte order of endian, and in every archive to_binary returns
\* the BOM of the SARC header is that byte order and the SFAT header, the FAT
\* entries and the SFNT header are written in it.
WrittenInOrderOfBom ==
    /\ WrittenEndian = writer.endian
    /\ ReadU16(ret.buf, 24, WrittenEndian) = SFAT_HEADER_SIZE
    /\ WrittenNumFiles = Len(writer.files)
    /\ WrittenMultiplier = writer.hash_multiplier
    /\ \A i \in 1..Len(writer.files) :
          /\ WrittenEntry(i - 1).name_hash
               = hash_name(writer.hash_multiplier, writer.files[i].name)
          /\ WrittenEntry(i - 1).data_end - WrittenEntry(i - 1).data_begin
               = Len(writer.files[i].data)
    /\ ReadU16(ret.buf, 36 + FAT_ENTRY_SIZE * Len(writer.files), WrittenEndian)
         = SFNT_HEADER_SIZE

C30_BinEndianIsEndian ==
    /\ (writer # NoWriter /\ writer # Panic) => writer.bin_endian = writer.endian
    /\ (writer # NoWriter /\ ret.tag = "to_binary") => WrittenInOrderOfBom

\* The archive of a writer built by from_sarc whose endian set_endian changed.
C30_Witness ==
    /\ writer # NoWriter /\ ret.tag = "to_binary"
    /\ sarc # NoSarc /\ sarc.tag = "Ok" /\ sarc.endian # writer.endian
    /\ Len(writer.files) = 2

====
